---- MODULE Spec2Model ----
(***************************************************************************)
(* The migration orchestrator of dbmate (pkg/dbmate): DB.migrate and       *)
(* DB.Rollback over one primary and NumSlaves replicas, with doTransaction *)
(* and the per-block transaction option.  Every driver call may fail; the  *)
(* application of one block to one backend is one step.                    *)
(***************************************************************************)
EXTENDS Integers, Sequences, FiniteSets, TLC

\* Number of migration files in the migrations directory; the i-th file of
\* the sorted listing carries version i.
NumFiles == 2
\* Number of replica ("slave") databases, len(db.SlaveDatabases).
NumSlaves == 2
\* Largest db.WaitTimeout and db.WaitInterval considered, in ticks.
MaxWaitTimeout == 3
MaxWaitInterval == 2
MaxLines == 3
MaxTokens == 2
MaxContents == 5
MaxNames == 3
\* The events wait's log keeps for one driver; later ones are not logged.
MaxLog == 9

Master == 0
Slaves == 1..NumSlaves
Backends == 0..NumSlaves
Files == 1..NumFiles
Versions == 1..NumFiles

Nil == "nil"

VARIABLES
    ledger,         \* [Backends -> SUBSET Versions]: rows of schema_migrations
    ledger0,        \* the ledgers as they were when the operation was called
    effects,        \* [Backends -> SUBSET (kinds \X Versions)]: block contents
                    \* this call has made durable on each backend
    op,             \* the running (or last) operation: "none", "Migrate", "Rollback"
    pc,             \* position in the operation
    err,            \* the local err of the operation; at pc = "done" its result
    handles,        \* backends with an open *sql.DB of this operation
    applied,        \* result of SelectMigrations on the primary
    appliedSlaves,  \* [Slaves -> result of SelectMigrations on that replica]
    fileIdx,        \* position of migrate's loop over files (0: not in the loop)
    idx,            \* position of the loop over slavesDrv
    blocks,         \* Transaction() of the parsed blocks the operation keeps
    latest,         \* Rollback's latest version, 0 for ""
    cur,            \* the last block application: backend, block, version, option
    tx,             \* how it ran: the transaction's fate, the callback's error and
                    \* the error the application returned
    pre,            \* ledger and effects of cur.b when that application began
    calls,          \* driver calls of this operation, in order
    injected,       \* some call of this operation failed for a reason of its own
    dumped,         \* outcome of the trailing dumpSchema: "none", "ok", "failed"
    table,          \* [Backends -> BOOLEAN]: the schema_migrations table exists
    exists,         \* [Backends -> BOOLEAN]: the database exists on its server
    WaitTimeout,    \* db.WaitTimeout, in ticks
    WaitInterval,   \* db.WaitInterval, in ticks
    drivers,        \* wait's argument d: the backends to wait for, in order
    drvIdx,         \* position of wait's loop over d (0: not in the loop)
    elapsed,        \* wait's loop variable i, the time slept for this driver
    successful,     \* wait's local of that name
    pingErr,        \* wait's local err: 0 for nil, k for the error of the k-th Ping
    wrapped,        \* the error ErrCantConnect wraps in wait's result (0: none)
    waitLog,        \* the Pings and Sleeps for the driver wait is at, in order
    waited,         \* the drivers wait has left behind, in order, each with
                    \* whether one of its Pings succeeded
    quiet,          \* Status's argument
    pending,        \* Status's first result: totalPending, -1 with an error
    contents,       \* parseMigrationContents's argument, the text of a file
    parsed,         \* parseMigrationContents's results
    blockText,      \* parseMigrationOptions's argument, the text of a block
    options,        \* parseMigrationOptions's result
    mContents,      \* m.Contents of the Migration ContentsReplaced is called on
    wildcards,      \* drv.GetWildcards()
    doReplacement,  \* ContentsReplaced's argument
    replaced,       \* what ContentsReplaced returned, and what it returned for
                    \* that in turn
    dirFiles,       \* the names of the files in db.MigrationsDir, less ".sql"
    findVer,        \* findMigrationFile's argument ver
    foundFile,      \* findMigrationFile's results
    sent            \* the text the closure of getExecMigration hands to tx.Exec

vars == <<ledger, ledger0, effects, op, pc, err, handles, applied, appliedSlaves, fileIdx,
          idx, blocks, latest, cur, tx, pre, calls, injected, dumped, table, exists,
          WaitTimeout, WaitInterval, drivers, drvIdx, elapsed, successful, pingErr,
          wrapped, waitLog, waited, quiet, pending, contents, parsed,
          blockText, options, mContents, wildcards, doReplacement, replaced,
          dirFiles, findVer, foundFile, sent>>

\* The configuration and the locals of wait; the databases' existence.
waitCfg == <<WaitTimeout, WaitInterval>>
waitVars == <<drivers, drvIdx, elapsed, successful, pingErr, wrapped, waitLog, waited>>
statusVars == <<quiet, pending>>
parseVars == <<contents, parsed>>
optionVars == <<blockText, options>>
\* The arguments and results of the functions checked on their own.
replaceVars == <<mContents, wildcards, doReplacement, replaced>>
findVars == <<dirFiles, findVer, foundFile>>
pureVars == <<optionVars, replaceVars, findVars, sent>>

\* Nothing was handed to tx.Exec.
Unsent == <<"unsent">>
outside == <<exists, waitCfg, waitVars, statusVars, parseVars, pureVars>>

\* The block "-- migrate:up": nothing after the directive.
NoBlockText == [directive |-> <<>>, body |-> <<>>]

\* The result of parseMigrationOptions before it ran.
NoOptions == [unparsed |-> "unparsed"]

\* An empty block, a driver without wildcards.
NoReplaceInputs ==
    /\ mContents = <<>>
    /\ wildcards = <<>>
    /\ doReplacement = FALSE

\* An empty directory.
NoFindInputs ==
    /\ dirFiles = {}
    /\ findVer = <<"1">>

\* The results of findMigrationFile before it ran.
NotFound == [filename |-> <<>>, err |-> "uncalled"]

\* No argument is given to the functions checked on their own.
NoPureInputs ==
    /\ blockText = NoBlockText
    /\ NoReplaceInputs
    /\ NoFindInputs

\* The line kinds that are block directives: -- migrate:<kind>
Directives == {"up", "down", "up:slave", "down:slave"}

\* A text is its lines, each ended by a newline, the last one only when
\* terminated; the empty string has no line.
EmptyText == [lines |-> <<>>, terminated |-> FALSE]

\* func NewMigration() Migration
NewMigration == [Contents |-> EmptyText]

\* The results of parseMigrationContents before it ran.
NoParse == [up |-> NewMigration, down |-> NewMigration, upSlave |-> NewMigration,
            downSlave |-> NewMigration, err |-> "unparsed"]

NoBlocks == [up |-> TRUE, upSlave |-> TRUE, down |-> TRUE, downSlave |-> TRUE]
NoCur == [b |-> 0, kind |-> "none", ver |-> 0, opt |-> TRUE]
NoTx == [status |-> "none", cbErr |-> Nil, err |-> Nil]
NoPre == [led |-> {}, eff |-> {}]

\* The state every operation starts from: no locals, no handles, empty logs.
Fresh(o, p) ==
    /\ op' = o
    /\ pc' = p
    /\ err' = Nil
    /\ handles' = {}
    /\ applied' = {}
    /\ appliedSlaves' = [s \in Slaves |-> {}]
    /\ fileIdx' = 0
    /\ idx' = 0
    /\ blocks' = NoBlocks
    /\ latest' = 0
    /\ cur' = NoCur
    /\ tx' = NoTx
    /\ pre' = NoPre
    /\ calls' = <<>>
    /\ injected' = FALSE
    /\ dumped' = "none"
    /\ effects' = [b \in Backends |-> {}]
    /\ ledger0' = ledger

TypeOK ==
    /\ ledger \in [Backends -> SUBSET Versions]
    /\ op \in {"none", "Migrate", "Rollback", "DumpSchema", "Status", "wait",
                "CreateAndMigrate", "Create", "Drop"}
    /\ handles \subseteq Backends
    /\ fileIdx \in 0..(NumFiles + 1)
    /\ idx \in 0..(2 * NumSlaves + 2)

\* Before the first operation.
Start ==
    /\ ledger0 = ledger
    /\ effects = [b \in Backends |-> {}]
    /\ op = "none"
    /\ pc = "idle"
    /\ err = Nil
    /\ handles = {}
    /\ applied = {}
    /\ appliedSlaves = [s \in Slaves |-> {}]
    /\ fileIdx = 0
    /\ idx = 0
    /\ blocks = NoBlocks
    /\ latest = 0
    /\ cur = NoCur
    /\ tx = NoTx
    /\ pre = NoPre
    /\ calls = <<>>
    /\ injected = FALSE
    /\ dumped = "none"
    /\ drivers = <<>>
    /\ drvIdx = 0
    /\ elapsed = 0
    /\ successful = FALSE
    /\ pingErr = 0
    /\ wrapped = 0
    /\ waitLog = <<>>
    /\ waited = <<>>
    /\ quiet = FALSE
    /\ pending = 0
    /\ parsed = NoParse
    /\ options = NoOptions
    /\ replaced = <<>>
    /\ foundFile = NotFound
    /\ sent = Unsent

\* New(): WaitInterval and WaitTimeout hold their defaults.
DefaultWait ==
    /\ WaitTimeout = MaxWaitTimeout
    /\ WaitInterval = 1

\* Any ledgers: the databases are whatever earlier runs and other tools left.
Init ==
    /\ ledger \in [Backends -> SUBSET Versions]
    /\ table = [b \in Backends |-> TRUE]
    /\ exists = [b \in Backends |-> TRUE]
    /\ DefaultWait
    /\ contents = EmptyText
    /\ NoPureInputs
    /\ Start

\* New databases: every ledger is empty.
InitEmpty ==
    /\ ledger = [b \in Backends |-> {}]
    /\ table = [b \in Backends |-> FALSE]
    /\ exists = [b \in Backends |-> TRUE]
    /\ DefaultWait
    /\ contents = EmptyText
    /\ NoPureInputs
    /\ Start

dbVars == <<ledger, ledger0, effects>>
locals == <<applied, appliedSlaves, fileIdx, idx, blocks, latest>>
blockVars == <<cur, tx, pre>>

\* All the variables of the orchestrator, of wait and of Status.
machine == <<dbVars, op, pc, err, handles, locals, blockVars, calls, injected, dumped,
             table, exists, waitCfg, waitVars, statusVars>>

\* A variant of Return without the deferred dbutil.MustClose calls.
Return_leak(e, inj) ==
    /\ pc' = "done"
    /\ err' = e
    /\ handles' = handles
    /\ injected' = (injected \/ inj)

\* return e: the deferred dbutil.MustClose calls release every handle.  inj
\* says that e is a failure of the environment (a driver call, the file
\* system), not a decision of the orchestrator.
Return(e, inj) ==
    /\ pc' = "done"
    /\ err' = e
    /\ handles' = {}
    /\ injected' = (injected \/ inj)

Goto(p) ==
    /\ pc' = p
    /\ UNCHANGED <<err, handles, injected>>

Idle == pc \in {"idle", "done"}

Call(name, b) == [call |-> name, b |-> b, ver |-> 0, kind |-> "none"]

\* parseMigration(...) of the file of version v, which is a call on no
\* backend: it returned blocks (ok), or an error.
NoBackend == -1
ParseCall(v, ok) ==
    [call |-> IF ok THEN "parseMigration" ELSE "parseMigration:error",
     b |-> NoBackend, ver |-> v, kind |-> "none"]

Max(S) == CHOOSE x \in S : \A y \in S : y <= x

\* Driver.SelectMigrations(db, limit): all applied versions for limit < 0,
\* the most recent one (version descending) for limit = 1.
SelectMigrations(b, limit) ==
    IF limit < 0 THEN ledger[b]
    ELSE IF ledger[b] = {} THEN {} ELSE {Max(ledger[b])}

\* A variant of openDatabaseForMigration that hands out the handle without
\* calling CreateMigrationsTable.
openDatabaseForMigration_noCreate(b, next) ==
    \/ /\ calls' = Append(calls, Call("Open", b))
       /\ Return("ErrOpen", TRUE)
       /\ UNCHANGED table
    \/ /\ calls' = Append(calls, Call("Open", b))
       /\ pc' = next
       /\ handles' = handles \cup {b}
       /\ UNCHANGED <<table, err, injected>>

\* openDatabaseForMigration(drv): Open, then CreateMigrationsTable; a failed
\* CreateMigrationsTable closes the handle before returning.
openDatabaseForMigration(b, next) ==
    \/ /\ calls' = Append(calls, Call("Open", b))
       /\ Return("ErrOpen", TRUE)
       /\ UNCHANGED table
    \/ /\ calls' = calls \o <<Call("Open", b), Call("CreateMigrationsTable", b)>>
       /\ Return("ErrCreateMigrationsTable", TRUE)
       /\ UNCHANGED table
    \/ /\ calls' = calls \o <<Call("Open", b), Call("CreateMigrationsTable", b)>>
       /\ pc' = next
       /\ handles' = handles \cup {b}
       /\ table' = [table EXCEPT ![b] = TRUE]
       /\ UNCHANGED <<err, injected>>

(***************************************************************************)
(* doTransaction and the closure of getExecMigration                       *)
(***************************************************************************)

\* What the environment does to one block application: the call that fails
\* ("duplicate": the driver's table rejects a version it already holds), and
\* whether tx.Rollback() fails when it is called.
Faults == {"none", "begin", "exec", "record", "duplicate", "commit"}
Scenarios == [fault : Faults, rb : BOOLEAN]

\* Driver.InsertMigration / Driver.DeleteMigration: the row is added, removed.
RecordCall == IF op = "Migrate" THEN "InsertMigration" ELSE "DeleteMigration"
RecordErr == IF op = "Migrate" THEN "ErrInsert" ELSE "ErrDelete"
Recorded(led, v) == IF op = "Migrate" THEN led \cup {v} ELSE led \ {v}

\* The closure of getExecMigration, run on a handle (a *sql.Tx or the bare
\* *sql.DB) that sees the ledger rows led and the effects eff:
\* tx.Exec(m.Contents), then d.InsertMigration(tx, ver) in migrate and
\* d.DeleteMigration(tx, latest) in Rollback.
execMigration(kind, v, s, led, eff) ==
    IF s.fault = "exec"
    THEN [err |-> "ErrExec", inj |-> TRUE, led |-> led, eff |-> eff,
          calls |-> <<"Exec">>]
    ELSE LET done == eff \cup {<<kind, v>>}
             both == <<"Exec", RecordCall>>
         IN  IF s.fault = "record"
             THEN [err |-> RecordErr, inj |-> TRUE, led |-> led, eff |-> done,
                   calls |-> both]
             ELSE IF s.fault = "duplicate" /\ op = "Migrate" /\ v \in led
             THEN [err |-> RecordErr, inj |-> FALSE, led |-> led, eff |-> done,
                   calls |-> both]
             ELSE [err |-> Nil, inj |-> FALSE, led |-> Recorded(led, v),
                   eff |-> done, calls |-> both]

\* A variant of doTransaction that returns tx.Rollback()'s result, losing the
\* callback's error.
doTransaction_returnsRollback(b, kind, v, s) ==
    IF s.fault = "begin"
    THEN [err |-> "ErrBegin", inj |-> TRUE, status |-> "beginFailed", cbErr |-> Nil,
          led |-> ledger[b], eff |-> effects[b], calls |-> <<>>]
    ELSE LET r == execMigration(kind, v, s, ledger[b], effects[b])
         IN  IF r.err # Nil
             THEN [err |-> IF s.rb THEN "ErrRollback" ELSE Nil,
                   inj |-> r.inj \/ s.rb,
                   status |-> IF s.rb THEN "rollbackFailed" ELSE "rolledBack",
                   cbErr |-> r.err,
                   led |-> ledger[b], eff |-> effects[b], calls |-> r.calls]
             ELSE IF s.fault = "commit"
             THEN [err |-> "ErrCommit", inj |-> TRUE, status |-> "commitFailed",
                   cbErr |-> Nil,
                   led |-> ledger[b], eff |-> effects[b], calls |-> r.calls]
             ELSE [err |-> Nil, inj |-> FALSE, status |-> "committed", cbErr |-> Nil,
                   led |-> r.led, eff |-> r.eff, calls |-> r.calls]

\* doTransaction(sqlDB, txFunc) on backend b: Begin; the callback on the
\* transaction; on its error Rollback, whose own error supersedes; else
\* Commit.  The callback's work reaches the database at a successful Commit.
doTransaction(b, kind, v, s) ==
    IF s.fault = "begin"
    THEN [err |-> "ErrBegin", inj |-> TRUE, status |-> "beginFailed", cbErr |-> Nil,
          led |-> ledger[b], eff |-> effects[b], calls |-> <<>>]
    ELSE LET r == execMigration(kind, v, s, ledger[b], effects[b])
         IN  IF r.err # Nil
             THEN [err |-> IF s.rb THEN "ErrRollback" ELSE r.err,
                   inj |-> r.inj \/ s.rb,
                   status |-> IF s.rb THEN "rollbackFailed" ELSE "rolledBack",
                   cbErr |-> r.err,
                   led |-> ledger[b], eff |-> effects[b], calls |-> r.calls]
             ELSE IF s.fault = "commit"
             THEN [err |-> "ErrCommit", inj |-> TRUE, status |-> "commitFailed",
                   cbErr |-> Nil,
                   led |-> ledger[b], eff |-> effects[b], calls |-> r.calls]
             ELSE [err |-> Nil, inj |-> FALSE, status |-> "committed", cbErr |-> Nil,
                   led |-> r.led, eff |-> r.eff, calls |-> r.calls]

\* The closure on the bare handle: each statement takes effect as it runs.
bareHandle(b, kind, v, s) ==
    LET r == execMigration(kind, v, s, ledger[b], effects[b])
    IN  [err |-> r.err, inj |-> r.inj, status |-> "bare", cbErr |-> r.err,
         led |-> r.led, eff |-> r.eff, calls |-> r.calls]

\* Variants of runBlock that ignore the block's transaction option.
runBlock_alwaysTx(b, kind, v, opt, s) == doTransaction(b, kind, v, s)
runBlock_neverTx(b, kind, v, opt, s) == bareHandle(b, kind, v, s)

\* if m.Options.Transaction() { err = doTransaction(db, f) } else { err = f(db) }
runBlock(b, kind, v, opt, s) ==
    IF opt THEN doTransaction(b, kind, v, s) ELSE bareHandle(b, kind, v, s)

\* Everything one application of a block can come to, over what the
\* environment may do to it.
Outcomes(b, kind, v, opt) == {runBlock(b, kind, v, opt, s) : s \in Scenarios}

\* The state after one block application with result r.
Applied(b, kind, v, opt, r) ==
    /\ cur' = [b |-> b, kind |-> kind, ver |-> v, opt |-> opt]
    /\ pre' = [led |-> ledger[b], eff |-> effects[b]]
    /\ tx' = [status |-> r.status, cbErr |-> r.cbErr, err |-> r.err]
    /\ ledger' = [ledger EXCEPT ![b] = r.led]
    /\ effects' = [effects EXCEPT ![b] = r.eff]
    /\ calls' = calls \o [i \in 1..Len(r.calls) |->
                            [call |-> r.calls[i], b |-> b, ver |-> v, kind |-> kind]]
    /\ UNCHANGED ledger0

\* Where a loop over slavesDrv goes: its body at replica i, or past its end.
SlaveLoop(i, bodyPc, endPc) == IF i > NumSlaves THEN endPc ELSE bodyPc

(***************************************************************************)
(* DB.migrate                                                              *)
(***************************************************************************)

Migrate ==
    /\ Idle
    /\ Fresh("Migrate", "m_find")
    /\ UNCHANGED ledger
    /\ UNCHANGED <<table, outside>>

\* files, err := findMigrationFiles(db.MigrationsDir, migrationFileRegexp),
\* and if db.WaitBefore { wait on the primary, then on the replicas }
migrateFindFiles ==
    /\ pc = "m_find"
    /\ \/ Return("ErrMigrationDirNotFound", TRUE)
       \/ Return("ErrCantConnect", TRUE)
       \/ Goto("m_open")
    /\ UNCHANGED <<dbVars, op, locals, blockVars, calls, dumped>>
    /\ UNCHANGED <<table, outside>>

\* sqlDB, err := db.openDatabaseForMigration(drv); defer dbutil.MustClose(sqlDB)
migrateOpen ==
    /\ pc = "m_open"
    /\ openDatabaseForMigration(Master, "m_select")
    /\ UNCHANGED <<dbVars, op, locals, blockVars, dumped>>
    /\ UNCHANGED outside

\* applied, err := drv.SelectMigrations(sqlDB, -1)
migrateSelect ==
    /\ pc = "m_select"
    /\ calls' = Append(calls, Call("SelectMigrations", Master))
    /\ \/ /\ Return("ErrSelect", TRUE)
          /\ UNCHANGED locals
       \/ /\ applied' = SelectMigrations(Master, -1)
          /\ idx' = 1
          /\ fileIdx' = 1
          /\ Goto(SlaveLoop(1, "m_openSlave", "m_file"))
          /\ UNCHANGED <<appliedSlaves, blocks, latest>>
    /\ UNCHANGED <<dbVars, op, blockVars, dumped>>
    /\ UNCHANGED <<table, outside>>

\* slaveSQLDbs[idx], err = db.openDatabaseForMigration(slaveDrv)
migrateOpenSlave ==
    /\ pc = "m_openSlave"
    /\ openDatabaseForMigration(idx, "m_selectSlave")
    /\ UNCHANGED <<dbVars, op, locals, blockVars, dumped>>
    /\ UNCHANGED outside

\* appliedSlaves[idx], err = slaveDrv.SelectMigrations(slaveSQLDbs[idx], -1)
migrateSelectSlave ==
    /\ pc = "m_selectSlave"
    /\ calls' = Append(calls, Call("SelectMigrations", idx))
    /\ \/ /\ Return("ErrSelect", TRUE)
          /\ UNCHANGED locals
       \/ /\ appliedSlaves' = [appliedSlaves EXCEPT ![idx] = SelectMigrations(idx, -1)]
          /\ idx' = idx + 1
          /\ Goto(SlaveLoop(idx + 1, "m_openSlave", "m_file"))
          /\ UNCHANGED <<applied, fileIdx, blocks, latest>>
    /\ UNCHANGED <<dbVars, op, blockVars, dumped>>
    /\ UNCHANGED <<table, outside>>

\* ver := migrationVersion(filename), for the file the loop is at.
ver == fileIdx

\* A variant of applyToMaster with the test inverted.
applyToMaster_inverted == ver \in applied

\* if ok := applied[ver]; !ok { applyToMaster = true }
applyToMaster == ver \notin applied

\* if ok := appliedSlaves[idx][ver]; !ok { applyToSlaves = append(applyToSlaves, idx) }
applyToSlaves == {s \in Slaves : ver \notin appliedSlaves[s]}

\* A variant of migrateFile that goes on to the blocks when parseMigration
\* returns an error.
migrateFile_ignoreParseErr ==
    /\ pc = "m_file"
    /\ IF fileIdx > NumFiles
       THEN /\ Goto("m_dump")
            /\ UNCHANGED <<locals, calls>>
       ELSE IF ~applyToMaster /\ applyToSlaves = {}
       THEN /\ fileIdx' = fileIdx + 1
            /\ Goto("m_file")
            /\ UNCHANGED <<applied, appliedSlaves, idx, blocks, latest, calls>>
       ELSE \/ /\ calls' = Append(calls, ParseCall(ver, FALSE))
               /\ blocks' = NoBlocks
               /\ idx' = 1
               /\ Goto(SlaveLoop(1, "m_slave", "m_master"))
               /\ UNCHANGED <<applied, appliedSlaves, fileIdx, latest>>
            \/ /\ calls' = Append(calls, ParseCall(ver, TRUE))
               /\ \E u, us \in BOOLEAN :
                    blocks' = [NoBlocks EXCEPT !.up = u, !.upSlave = us]
               /\ idx' = 1
               /\ Goto(SlaveLoop(1, "m_slave", "m_master"))
               /\ UNCHANGED <<applied, appliedSlaves, fileIdx, latest>>
    /\ UNCHANGED <<dbVars, op, blockVars, dumped>>
    /\ UNCHANGED <<table, outside>>

\* The head of the loop over files: its end, the skip of an applied file, and
\* up, _, upSlave, _, err := parseMigration(...); if err != nil { return err }
migrateFile ==
    /\ pc = "m_file"
    /\ IF fileIdx > NumFiles
       THEN /\ Goto("m_dump")
            /\ UNCHANGED <<locals, calls>>
       ELSE IF ~applyToMaster /\ applyToSlaves = {}
       THEN /\ fileIdx' = fileIdx + 1
            /\ Goto("m_file")
            /\ UNCHANGED <<applied, appliedSlaves, idx, blocks, latest, calls>>
       ELSE \/ /\ calls' = Append(calls, ParseCall(ver, FALSE))
               /\ Return("ErrParse", TRUE)
               /\ UNCHANGED locals
            \/ /\ calls' = Append(calls, ParseCall(ver, TRUE))
               /\ \E u, us \in BOOLEAN :
                    blocks' = [NoBlocks EXCEPT !.up = u, !.upSlave = us]
               /\ idx' = 1
               /\ Goto(SlaveLoop(1, "m_slave", "m_master"))
               /\ UNCHANGED <<applied, appliedSlaves, fileIdx, latest>>
    /\ UNCHANGED <<dbVars, op, blockVars, dumped>>
    /\ UNCHANGED <<table, outside>>

\* A variant of migrateSlave that goes on to the next replica whatever the
\* block returned.
migrateSlave_ignoreErr ==
    /\ pc = "m_slave"
    /\ \E r \in Outcomes(idx, "up:slave", ver, blocks.upSlave) :
          /\ Applied(idx, "up:slave", ver, blocks.upSlave, r)
          /\ idx' = idx + 1
          /\ Goto(SlaveLoop(idx + 1, "m_slave", "m_master"))
    /\ UNCHANGED <<op, applied, appliedSlaves, fileIdx, blocks, latest, dumped>>
    /\ UNCHANGED <<table, outside>>

\* The loop "Apply to Slaves first and fail early", one replica of it:
\* for idx, slaveDrv := range slavesDrv { ...; if err != nil { return err } }
migrateSlave ==
    /\ pc = "m_slave"
    /\ \E r \in Outcomes(idx, "up:slave", ver, blocks.upSlave) :
          /\ Applied(idx, "up:slave", ver, blocks.upSlave, r)
          /\ IF r.err # Nil
             THEN /\ Return(r.err, r.inj)
                  /\ UNCHANGED idx
             ELSE /\ idx' = idx + 1
                  /\ Goto(SlaveLoop(idx + 1, "m_slave", "m_master"))
    /\ UNCHANGED <<op, applied, appliedSlaves, fileIdx, blocks, latest, dumped>>
    /\ UNCHANGED <<table, outside>>

\* The end of one iteration of the loop over files.
NextFile ==
    /\ fileIdx' = fileIdx + 1
    /\ blocks' = NoBlocks
    /\ idx' = 0
    /\ Goto("m_file")
    /\ UNCHANGED <<applied, appliedSlaves, latest>>

\* A variant of migrateMaster that hands the primary the replicas' block.
migrateMaster_slaveBlock ==
    /\ pc = "m_master"
    /\ IF applyToMaster
       THEN \E r \in Outcomes(Master, "up:slave", ver, blocks.upSlave) :
               /\ Applied(Master, "up:slave", ver, blocks.upSlave, r)
               /\ IF r.err # Nil
                  THEN /\ Return(r.err, r.inj)
                       /\ UNCHANGED locals
                  ELSE NextFile
       ELSE /\ NextFile
            /\ UNCHANGED <<dbVars, blockVars, calls>>
    /\ UNCHANGED <<op, dumped>>
    /\ UNCHANGED <<table, outside>>

\* if applyToMaster { upTx := getExecMigration(drv, up), run under up's
\* transaction option; if err != nil { return err } }
migrateMaster ==
    /\ pc = "m_master"
    /\ IF applyToMaster
       THEN \E r \in Outcomes(Master, "up", ver, blocks.up) :
               /\ Applied(Master, "up", ver, blocks.up, r)
               /\ IF r.err # Nil
                  THEN /\ Return(r.err, r.inj)
                       /\ UNCHANGED locals
                  ELSE NextFile
       ELSE /\ NextFile
            /\ UNCHANGED <<dbVars, blockVars, calls>>
    /\ UNCHANGED <<op, dumped>>
    /\ UNCHANGED <<table, outside>>

\* db.dumpSchema(drv), start to end: the optional wait, a handle of its own
\* from openDatabaseForMigration, drv.DumpSchema, ensureDir and os.WriteFile;
\* the deferred MustClose releases the handle.  Its driver calls and result.
dumpSchema ==
    { [calls |-> <<>>, err |-> "ErrCantConnect"],
      [calls |-> <<Call("Open", Master)>>, err |-> "ErrOpen"],
      [calls |-> <<Call("Open", Master), Call("CreateMigrationsTable", Master)>>,
       err |-> "ErrCreateMigrationsTable"] }
    \cup
    { [calls |-> <<Call("Open", Master), Call("CreateMigrationsTable", Master),
                  Call("DumpSchema", Master)>>,
       err |-> e] : e \in {"ErrDumpSchema", "ErrWriteFile", Nil} }

\* A variant of dumpSchemaAndReturn that returns dumpSchema's error.
dumpSchemaAndReturn_propagate ==
    /\ pc \in {"m_dump", "r_dump"}
    /\ \/ /\ dumped' = "none"
          /\ Return(Nil, FALSE)
          /\ UNCHANGED <<calls, table>>
       \/ \E r \in dumpSchema :
             /\ dumped' = IF r.err = Nil THEN "ok" ELSE "failed"
             /\ calls' = calls \o r.calls
             /\ table' = IF Len(r.calls) >= 3 THEN [table EXCEPT ![Master] = TRUE]
                                              ELSE table
             /\ Return(r.err, r.err # Nil)
    /\ UNCHANGED <<dbVars, op, locals, blockVars>>
    /\ UNCHANGED outside

\* if db.AutoDumpSchema { _ = db.dumpSchema(drv) }; return nil
dumpSchemaAndReturn ==
    /\ pc \in {"m_dump", "r_dump"}
    /\ \/ /\ dumped' = "none"
          /\ Return(Nil, FALSE)
          /\ UNCHANGED <<calls, table>>
       \/ \E r \in dumpSchema :
             /\ dumped' = IF r.err = Nil THEN "ok" ELSE "failed"
             /\ calls' = calls \o r.calls
             /\ table' = IF Len(r.calls) >= 3 THEN [table EXCEPT ![Master] = TRUE]
                                              ELSE table
             /\ Return(Nil, FALSE)
    /\ UNCHANGED <<dbVars, op, locals, blockVars>>
    /\ UNCHANGED outside

(***************************************************************************)
(* DB.Rollback                                                             *)
(***************************************************************************)

Rollback ==
    /\ Idle
    /\ Fresh("Rollback", "r_wait")
    /\ UNCHANGED ledger
    /\ UNCHANGED <<table, outside>>

\* if db.WaitBefore { wait on the primary, then on the replicas }
rollbackWait ==
    /\ pc = "r_wait"
    /\ \/ Return("ErrCantConnect", TRUE)
       \/ Goto("r_open")
    /\ UNCHANGED <<dbVars, op, locals, blockVars, calls, dumped>>
    /\ UNCHANGED <<table, outside>>

\* sqlDB, err := db.openDatabaseForMigration(drv); defer dbutil.MustClose(sqlDB)
rollbackOpen ==
    /\ pc = "r_open"
    /\ openDatabaseForMigration(Master, "r_select")
    /\ UNCHANGED <<dbVars, op, locals, blockVars, dumped>>
    /\ UNCHANGED outside

\* latest := ""; for ver := range applied { latest = ver }
Latest(a) == IF a = {} THEN 0 ELSE CHOOSE v \in a : TRUE

\* A variant of rollbackSelect without the ErrNoRollback check.
rollbackSelect_noCheck ==
    /\ pc = "r_select"
    /\ calls' = Append(calls, Call("SelectMigrations", Master))
    /\ \/ /\ Return("ErrSelect", TRUE)
          /\ UNCHANGED locals
       \/ /\ applied' = SelectMigrations(Master, 1)
          /\ latest' = Latest(applied')
          /\ Goto("r_find")
          /\ UNCHANGED <<appliedSlaves, fileIdx, idx, blocks>>
    /\ UNCHANGED <<dbVars, op, blockVars, dumped>>
    /\ UNCHANGED <<table, outside>>

\* applied, err := drv.SelectMigrations(sqlDB, 1) and the ErrNoRollback check
rollbackSelect ==
    /\ pc = "r_select"
    /\ calls' = Append(calls, Call("SelectMigrations", Master))
    /\ \/ /\ Return("ErrSelect", TRUE)
          /\ UNCHANGED locals
       \/ /\ applied' = SelectMigrations(Master, 1)
          /\ latest' = Latest(applied')
          /\ IF latest' = 0
             THEN Return("ErrNoRollback", FALSE)
             ELSE Goto("r_find")
          /\ UNCHANGED <<appliedSlaves, fileIdx, idx, blocks>>
    /\ UNCHANGED <<dbVars, op, blockVars, dumped>>
    /\ UNCHANGED <<table, outside>>

\* filename, err := findMigrationFile(db.MigrationsDir, latest)
rollbackFind ==
    /\ pc = "r_find"
    /\ \/ /\ Return("ErrMigrationNotFound", TRUE)
          /\ UNCHANGED idx
       \/ /\ idx' = 1
          /\ Goto(SlaveLoop(1, "r_openSlave", "r_parse"))
    /\ UNCHANGED <<dbVars, op, applied, appliedSlaves, fileIdx, blocks, latest,
                   blockVars, calls, dumped>>
    /\ UNCHANGED <<table, outside>>

\* slaveSQLDbs[idx], err = db.openDatabaseForMigration(slaveDrv)
rollbackOpenSlave ==
    /\ pc = "r_openSlave"
    /\ openDatabaseForMigration(idx, "r_selectSlave")
    /\ UNCHANGED <<dbVars, op, locals, blockVars, dumped>>
    /\ UNCHANGED outside

\* for slaveVer := range appliedSlaves[idx] { if slaveVer != latest { ... } }
slaveOutOfSync(a) == \E slaveVer \in a : slaveVer # latest

\* appliedSlaves[idx], err = slaveDrv.SelectMigrations(slaveSQLDbs[idx], 1)
\* and the ErrNoRollbackSlaves check
rollbackSelectSlave ==
    /\ pc = "r_selectSlave"
    /\ calls' = Append(calls, Call("SelectMigrations", idx))
    /\ \/ /\ Return("ErrSelect", TRUE)
          /\ UNCHANGED locals
       \/ /\ appliedSlaves' = [appliedSlaves EXCEPT ![idx] = SelectMigrations(idx, 1)]
          /\ IF slaveOutOfSync(appliedSlaves'[idx])
             THEN /\ Return("ErrNoRollbackSlaves", FALSE)
                  /\ UNCHANGED idx
             ELSE /\ idx' = idx + 1
                  /\ Goto(SlaveLoop(idx + 1, "r_openSlave", "r_parse"))
          /\ UNCHANGED <<applied, fileIdx, blocks, latest>>
    /\ UNCHANGED <<dbVars, op, blockVars, dumped>>
    /\ UNCHANGED <<table, outside>>

\* _, down, _, downSlave, err := parseMigration(...)
rollbackParse ==
    /\ pc = "r_parse"
    /\ \/ /\ calls' = Append(calls, ParseCall(latest, FALSE))
          /\ Return("ErrParse", TRUE)
          /\ UNCHANGED blocks
       \/ /\ calls' = Append(calls, ParseCall(latest, TRUE))
          /\ \E d, ds \in BOOLEAN :
               blocks' = [NoBlocks EXCEPT !.down = d, !.downSlave = ds]
          /\ Goto("r_master")
    /\ UNCHANGED <<dbVars, op, applied, appliedSlaves, fileIdx, idx, latest,
                   blockVars, dumped>>
    /\ UNCHANGED <<table, outside>>

\* A variant of rollbackMaster that goes on to the replicas whatever the
\* block returned.
rollbackMaster_ignoreErr ==
    /\ pc = "r_master"
    /\ \E r \in Outcomes(Master, "down", latest, blocks.down) :
          /\ Applied(Master, "down", latest, blocks.down, r)
          /\ idx' = 1
          /\ Goto(SlaveLoop(1, "r_slave", "r_dump"))
    /\ UNCHANGED <<op, applied, appliedSlaves, fileIdx, blocks, latest, dumped>>
    /\ UNCHANGED <<table, outside>>

\* downTx := getExecMigration(drv, down), run under down's transaction
\* option; if err != nil { return err }
rollbackMaster ==
    /\ pc = "r_master"
    /\ \E r \in Outcomes(Master, "down", latest, blocks.down) :
          /\ Applied(Master, "down", latest, blocks.down, r)
          /\ IF r.err # Nil
             THEN /\ Return(r.err, r.inj)
                  /\ UNCHANGED idx
             ELSE /\ idx' = 1
                  /\ Goto(SlaveLoop(1, "r_slave", "r_dump"))
    /\ UNCHANGED <<op, applied, appliedSlaves, fileIdx, blocks, latest, dumped>>
    /\ UNCHANGED <<table, outside>>

\* A variant of rollbackSlave that goes on to the next replica whatever the
\* block returned.
rollbackSlave_ignoreErr ==
    /\ pc = "r_slave"
    /\ \E r \in Outcomes(idx, "down:slave", latest, blocks.downSlave) :
          /\ Applied(idx, "down:slave", latest, blocks.downSlave, r)
          /\ idx' = idx + 1
          /\ Goto(SlaveLoop(idx + 1, "r_slave", "r_dump"))
    /\ UNCHANGED <<op, applied, appliedSlaves, fileIdx, blocks, latest, dumped>>
    /\ UNCHANGED <<table, outside>>

\* The loop "Do slaves next", one replica of it.
rollbackSlave ==
    /\ pc = "r_slave"
    /\ \E r \in Outcomes(idx, "down:slave", latest, blocks.downSlave) :
          /\ Applied(idx, "down:slave", latest, blocks.downSlave, r)
          /\ IF r.err # Nil
             THEN /\ Return(r.err, r.inj)
                  /\ UNCHANGED idx
             ELSE /\ idx' = idx + 1
                  /\ Goto(SlaveLoop(idx + 1, "r_slave", "r_dump"))
    /\ UNCHANGED <<op, applied, appliedSlaves, fileIdx, blocks, latest, dumped>>
    /\ UNCHANGED <<table, outside>>

Next ==
    \/ Migrate
    \/ migrateFindFiles
    \/ migrateOpen
    \/ migrateSelect
    \/ migrateOpenSlave
    \/ migrateSelectSlave
    \/ migrateFile
    \/ migrateSlave
    \/ migrateMaster
    \/ dumpSchemaAndReturn
    \/ Rollback
    \/ rollbackWait
    \/ rollbackOpen
    \/ rollbackSelect
    \/ rollbackFind
    \/ rollbackOpenSlave
    \/ rollbackSelectSlave
    \/ rollbackParse
    \/ rollbackMaster
    \/ rollbackSlave

Spec == Init /\ [][Next]_vars

\* Migrate alone, run again and again on databases that start empty.
NextMigrate ==
    \/ Migrate
    \/ migrateFindFiles
    \/ migrateOpen
    \/ migrateSelect
    \/ migrateOpenSlave
    \/ migrateSelectSlave
    \/ migrateFile
    \/ migrateSlave
    \/ migrateMaster
    \/ dumpSchemaAndReturn

SpecMigrate == InitEmpty /\ [][NextMigrate]_vars

(***************************************************************************)
(* DB.DumpSchema and DB.Status                                             *)
(***************************************************************************)

\* func (db *DB) DumpSchema() error
DumpSchema ==
    /\ Idle
    /\ Fresh("DumpSchema", "d_open")
    /\ UNCHANGED ledger
    /\ UNCHANGED <<table, outside>>

\* dumpSchema: the optional wait, then
\* sqlDB, err := db.openDatabaseForMigration(drv); defer dbutil.MustClose(sqlDB)
dumpSchemaOpen ==
    /\ pc = "d_open"
    /\ \/ /\ Return("ErrCantConnect", TRUE)
          /\ UNCHANGED <<calls, table>>
       \/ openDatabaseForMigration(Master, "d_dump")
    /\ UNCHANGED <<dbVars, op, locals, blockVars, dumped>>
    /\ UNCHANGED outside

\* schema, err := drv.DumpSchema(sqlDB); ensureDir; os.WriteFile
dumpSchemaWrite ==
    /\ pc = "d_dump"
    /\ calls' = Append(calls, Call("DumpSchema", Master))
    /\ \E e \in {"ErrDumpSchema", "ErrCreateDirectory", "ErrWriteFile", Nil} :
          /\ dumped' = IF e = Nil THEN "ok" ELSE "failed"
          /\ Return(e, e # Nil)
    /\ UNCHANGED <<dbVars, op, locals, blockVars>>
    /\ UNCHANGED <<table, outside>>

\* func (db *DB) Status(quiet bool) (int, error)
Status ==
    /\ Idle
    /\ Fresh("Status", "s_find")
    /\ quiet' \in BOOLEAN
    /\ pending' = 0
    /\ UNCHANGED <<ledger, table, exists, waitCfg, waitVars, parseVars, pureVars>>

statusFrame == <<dbVars, table, exists, waitCfg, waitVars, parseVars, pureVars, op, quiet,
                 dumped,
                 appliedSlaves, fileIdx, idx, blocks, latest, blockVars>>

\* CheckMigrationsStatus: files, err := findMigrationFiles(...)
statusFindFiles ==
    /\ pc = "s_find"
    /\ \/ /\ Return("ErrMigrationDirNotFound", TRUE)
          /\ pending' = -1
       \/ /\ Goto("s_open")
          /\ UNCHANGED pending
    /\ UNCHANGED <<statusFrame, applied, calls>>

\* sqlDB, err := drv.Open(); defer dbutil.MustClose(sqlDB)
statusOpen ==
    /\ pc = "s_open"
    /\ calls' = Append(calls, Call("Open", Master))
    /\ \/ /\ Return("ErrOpen", TRUE)
          /\ pending' = -1
       \/ /\ pc' = "s_exists"
          /\ handles' = handles \cup {Master}
          /\ UNCHANGED <<err, injected, pending>>
    /\ UNCHANGED <<statusFrame, applied>>

\* migrationsTableExists, err := drv.MigrationsTableExists(sqlDB);
\* applied := map[string]bool{} stands when the table does not exist
statusTableExists ==
    /\ pc = "s_exists"
    /\ calls' = Append(calls, Call("MigrationsTableExists", Master))
    /\ \/ /\ Return("ErrMigrationsTableExists", TRUE)
          /\ pending' = -1
          /\ UNCHANGED applied
       \/ /\ applied' = {}
          /\ Goto(IF table[Master] THEN "s_select" ELSE "s_count")
          /\ UNCHANGED pending
    /\ UNCHANGED statusFrame

\* applied, err = drv.SelectMigrations(sqlDB, -1)
statusSelect ==
    /\ pc = "s_select"
    /\ calls' = Append(calls, Call("SelectMigrations", Master))
    /\ \/ /\ Return("ErrSelect", TRUE)
          /\ pending' = -1
          /\ UNCHANGED applied
       \/ /\ applied' = SelectMigrations(Master, -1)
          /\ Goto("s_count")
          /\ UNCHANGED pending
    /\ UNCHANGED statusFrame

\* len(results) and totalApplied of Status, over CheckMigrationsStatus's results
totalApplied == Cardinality({f \in Files : f \in applied})

\* A variant of statusCount that returns the applied count.
statusCount_applied ==
    /\ pc = "s_count"
    /\ pending' = totalApplied
    /\ Return(Nil, FALSE)
    /\ UNCHANGED <<statusFrame, applied, calls>>

\* totalPending := len(results) - totalApplied; return totalPending, nil
statusCount ==
    /\ pc = "s_count"
    /\ pending' = NumFiles - totalApplied
    /\ Return(Nil, FALSE)
    /\ UNCHANGED <<statusFrame, applied, calls>>

\* New databases whose ledger tables may or may not have been created.
InitOps ==
    /\ ledger = [b \in Backends |-> {}]
    /\ table \in [Backends -> BOOLEAN]
    /\ exists = [b \in Backends |-> TRUE]
    /\ DefaultWait
    /\ contents = EmptyText
    /\ NoPureInputs
    /\ Start

NextOps ==
    \/ Migrate
    \/ migrateFindFiles
    \/ migrateOpen
    \/ migrateSelect
    \/ migrateOpenSlave
    \/ migrateSelectSlave
    \/ migrateFile
    \/ migrateSlave
    \/ migrateMaster
    \/ dumpSchemaAndReturn
    \/ Rollback
    \/ rollbackWait
    \/ rollbackOpen
    \/ rollbackSelect
    \/ rollbackFind
    \/ rollbackOpenSlave
    \/ rollbackSelectSlave
    \/ rollbackParse
    \/ rollbackMaster
    \/ rollbackSlave
    \/ DumpSchema
    \/ dumpSchemaOpen
    \/ dumpSchemaWrite
    \/ Status
    \/ statusFindFiles
    \/ statusOpen
    \/ statusTableExists
    \/ statusSelect
    \/ statusCount

\* Migrate, Rollback, DumpSchema and Status, in any order on new databases.
SpecOps == InitOps /\ [][NextOps]_vars

(***************************************************************************)
(* parseMigrationContents                                                  *)
(***************************************************************************)

\* The lines of a migration file: an empty line, a -- comment, a statement,
\* or a directive "-- migrate:<kind>" followed by options, each after a
\* space: opts is 0 for none, 1 for one, 2 for two or more.
Lines ==
    {[kind |-> k, opts |-> 0] : k \in {"blank", "comment", "stmt"}}
        \cup {[kind |-> k, opts |-> n] : k \in Directives, n \in 0..2}

Texts ==
    {EmptyText} \cup
    {[lines |-> l, terminated |-> t] :
        l \in UNION {[1..n -> Lines] : n \in 1..MaxLines}, t \in BOOLEAN}

\* re := (?m)^--\s*migrate\:(?:up|down)(?:\:slave)?( |\n): line i of c is
\* a directive with a space (its options) or a newline after its kind.
re(c, i) ==
    /\ c.lines[i].kind \in Directives
    /\ \/ c.lines[i].opts > 0
       \/ i < Len(c.lines)
       \/ c.terminated

\* reFinds := re.FindAllIndex([]byte(contents), -1), as line numbers
reFinds(c) ==
    LET Found(i) == re(c, i)
    IN  SelectSeq([i \in 1..Len(c.lines) |-> i], Found)

\* The blocks the first loop builds, each cut out with substring: a block
\* runs from its directive to the end of the text, or to the character
\* before the next directive (reFind[0] - 1), its last newline left out.
blocksOf(c) ==
    LET f == reFinds(c)
    IN  [k \in 1..Len(f) |->
            IF k < Len(f)
            THEN [lines |-> SubSeq(c.lines, f[k], f[k + 1] - 1), terminated |-> FALSE]
            ELSE [lines |-> SubSeq(c.lines, f[k], Len(c.lines)),
                  terminated |-> c.terminated]]

\* upRegExp = (?m)^--\s*migrate:up(\s*$|\s+\S+): some line of s is an up
\* directive, with or without options.
upRegExp(s) ==
    \E i \in DOMAIN s.lines : s.lines[i].kind = "up"

\* downRegExp = (?m)^--\s*migrate:down(\s*$|\s+\S+)$: some line of s is a
\* down directive that ends after at most one option.
downRegExp(s) ==
    \E i \in DOMAIN s.lines : s.lines[i].kind = "down" /\ s.lines[i].opts <= 1

\* upSlaveRegExp = (?m)^--\s*migrate:up:slave(\s*$|\s+\S+)
upSlaveRegExp(s) ==
    \E i \in DOMAIN s.lines : s.lines[i].kind = "up:slave"

\* downSlaveRegExp = (?m)^--\s*migrate:down:slave(\s*$|\s+\S+)$
downSlaveRegExp(s) ==
    \E i \in DOMAIN s.lines : s.lines[i].kind = "down:slave" /\ s.lines[i].opts <= 1

\* if xRegExp.Find([]byte(s)) != nil {
\*     if x.Contents != "" { return ..., ErrParseDuplicateBlock }
\*     x.Contents = s }
setBlock(r, slot, found, s) ==
    IF r.err # Nil \/ ~found THEN r
    ELSE IF r[slot].Contents # EmptyText
         THEN [r EXCEPT !.err = "ErrParseDuplicateBlock"]
         ELSE [r EXCEPT ![slot] = [Contents |-> s]]

\* The body of "for _, b := range blocks": the four tests in their order.
classifyBlock(s, r) ==
    setBlock(setBlock(setBlock(setBlock(r, "up", upRegExp(s), s),
                               "down", downRegExp(s), s),
                      "upSlave", upSlaveRegExp(s), s),
             "downSlave", downSlaveRegExp(s), s)

\* for _, b := range blocks { ... }, left at the first return
RECURSIVE classify(_, _, _)
classify(bs, k, r) ==
    IF k > Len(bs) \/ r.err # Nil
    THEN r
    ELSE classify(bs, k + 1, classifyBlock(bs[k], r))

isEmptyLine(l) == l.kind = "blank"

\* commentLineRegExp = ^\s*--, which a directive line matches too
isCommentLine(l) == l.kind = "comment" \/ l.kind \in Directives

\* func statementsPrecedeMigrateBlocks(contents string, firstBlockStart int) bool
statementsPrecedeMigrateBlocks(c, firstBlockStart) ==
    \E i \in 1..(firstBlockStart - 1) :
        ~(isEmptyLine(c.lines[i]) \/ isCommentLine(c.lines[i]))

\* A variant of parseMigrationContents without "Ensure there is at least an
\* up block".
parseMigrationContents_noUpCheck(c) ==
    LET f == reFinds(c)
        bs == blocksOf(c)
        new == [NoParse EXCEPT !.err = Nil]
        r == classify(bs, 1, new)
    IN  IF Len(bs) = 0 THEN new
        ELSE IF r.err # Nil THEN r
        ELSE IF statementsPrecedeMigrateBlocks(c, f[1])
             THEN [r EXCEPT !.err = "ErrParseUnexpectedStmt"]
             ELSE r

\* func parseMigrationContents(contents string)
\*     (Migration, Migration, Migration, Migration, error)
parseMigrationContents(c) ==
    LET f == reFinds(c)
        bs == blocksOf(c)
        new == [NoParse EXCEPT !.err = Nil]
        r == classify(bs, 1, new)
    IN  IF Len(bs) = 0 THEN [new EXCEPT !.err = "ErrParseMissingUp"]
        ELSE IF r.err # Nil THEN r
        ELSE IF r.up.Contents = EmptyText
             THEN [r EXCEPT !.err = "ErrParseMissingUp"]
        ELSE IF statementsPrecedeMigrateBlocks(c, f[1])
             THEN [r EXCEPT !.err = "ErrParseUnexpectedStmt"]
             ELSE r

\* func parseMigration(path string): the file's text goes through
\* parseMigrationContents.
parseMigration ==
    /\ parsed = NoParse
    /\ parsed' = parseMigrationContents(contents)
    /\ UNCHANGED <<contents, machine, pureVars>>

\* Any file of at most MaxLines lines.
InitParse ==
    /\ ledger = [b \in Backends |-> {}]
    /\ table = [b \in Backends |-> FALSE]
    /\ exists = [b \in Backends |-> TRUE]
    /\ DefaultWait
    /\ contents \in Texts
    /\ NoPureInputs
    /\ Start

NextParse == parseMigration

SpecParse == InitParse /\ [][NextParse]_vars

(***************************************************************************)
(* parseMigrationOptions and migrationOptions.Transaction                  *)
(***************************************************************************)

\* A whitespace-separated token, as the parts optionSeparatorRegExp.Split
\* cuts it into at each ":".
Tokens == {<<"transaction", "false">>, <<"transaction", "true">>,
           <<"transaction", "false", "x">>, <<"drop">>}

TokenSeqs == UNION {[1..n -> Tokens] : n \in 0..MaxTokens}

\* A block: the tokens of its directive line after "-- migrate:<kind>" and
\* the tokens of its later lines.
BlockTexts == [directive : TokenSeqs, body : TokenSeqs]

\* func parseMigrationOptions(contents string) MigrationOptions:
\* blockDirectiveRegExp takes the directive off the front of the block,
\* whitespaceRegExp splits all that is left, newlines included, and every
\* token of two parts is stored, a later one over an earlier one.
parseMigrationOptions(b) ==
    LET stringPairs == b.directive \o b.body
        wellFormed(pair) == Len(pair) = 2
        pairs == SelectSeq(stringPairs, wellFormed)
        keys == {pairs[i][1] : i \in DOMAIN pairs}
    IN  [k \in keys |-> pairs[Max({i \in DOMAIN pairs : pairs[i][1] = k})][2]]

\* func (m migrationOptions) Transaction() bool: m["transaction"] != "false"
Transaction(m) ==
    IF "transaction" \in DOMAIN m THEN m["transaction"] # "false" ELSE TRUE

\* up.Options = parseMigrationOptions(s)
parseBlockOptions ==
    /\ options = NoOptions
    /\ options' = parseMigrationOptions(blockText)
    /\ UNCHANGED <<blockText, machine, parseVars, replaceVars, findVars, sent>>

\* Any block of at most MaxTokens tokens on its directive line and after it.
InitOptions ==
    /\ ledger = [b \in Backends |-> {}]
    /\ table = [b \in Backends |-> FALSE]
    /\ exists = [b \in Backends |-> TRUE]
    /\ DefaultWait
    /\ contents = EmptyText
    /\ blockText \in BlockTexts
    /\ NoReplaceInputs
    /\ NoFindInputs
    /\ Start

NextOptions == parseBlockOptions

SpecOptions == InitOptions /\ [][NextOptions]_vars

(***************************************************************************)
(* Migration.ContentsReplaced                                              *)
(***************************************************************************)

\* The names of wildcards, and the pieces a text is made of: "{{", "}}"
\* and the names.
Wildcards == {"a", "b"}
Pieces == {"{{", "}}"} \cup Wildcards

ContentStrings == UNION {[1..n -> Pieces] : n \in 0..MaxContents}

\* The replacements a driver may give: nothing, a name, a template, a
\* name and "}}".
Replacements == {<<>>, <<"b">>, <<"{{", "b", "}}">>, <<"a", "}}">>}

\* drv.GetWildcards(): a map from some names to replacements
WildcardMaps == UNION {[K -> Replacements] : K \in SUBSET Wildcards}

\* fmt.Sprintf("{{%s}}", wildcard)
Template(wildcard) == <<"{{", wildcard, "}}">>

\* strings.ReplaceAll(str, Template(wildcard), replacement): every
\* occurrence, from the left, none overlapping.
RECURSIVE ReplaceAll(_, _, _)
ReplaceAll(str, wildcard, replacement) ==
    IF Len(str) < 3 THEN str
    ELSE IF SubSeq(str, 1, 3) = Template(wildcard)
         THEN replacement \o ReplaceAll(SubSeq(str, 4, Len(str)), wildcard, replacement)
         ELSE <<Head(str)>> \o ReplaceAll(Tail(str), wildcard, replacement)

\* The orders in which "range w" may visit the keys of the map w.
RangeOrders(w) ==
    {o \in [1..Cardinality(DOMAIN w) -> DOMAIN w] :
        \A i, j \in DOMAIN o : o[i] = o[j] => i = j}

\* for wildcard, replacement := range w { newContents = strings.ReplaceAll(...) }
RECURSIVE replaceInOrder(_, _, _, _)
replaceInOrder(newContents, w, o, i) ==
    IF i > Len(o) THEN newContents
    ELSE replaceInOrder(ReplaceAll(newContents, o[i], w[o[i]]), w, o, i + 1)

\* A variant of ContentsReplaced that does not look at doReplacement.
ContentsReplaced_always(contentsOfM, w, flag, o) ==
    IF DOMAIN w # {}
    THEN replaceInOrder(contentsOfM, w, o, 1)
    ELSE contentsOfM

\* func (m *Migration) ContentsReplaced(drv Driver, doReplacement bool) string,
\* the keys of the map visited in the order o
ContentsReplaced(contentsOfM, w, flag, o) ==
    IF flag /\ DOMAIN w # {}
    THEN replaceInOrder(contentsOfM, w, o, 1)
    ELSE contentsOfM

\* A call of ContentsReplaced, on m.Contents and then on what it returned.
callContentsReplaced ==
    /\ Len(replaced) < 2
    /\ \E o \in RangeOrders(wildcards) :
          replaced' = Append(replaced,
                             ContentsReplaced(IF replaced = <<>> THEN mContents
                                              ELSE replaced[Len(replaced)],
                                              wildcards, doReplacement, o))
    /\ UNCHANGED <<mContents, wildcards, doReplacement, machine, parseVars, optionVars,
                   findVars, sent>>

\* The closure of getExecMigration(d, m) in migrate and in Rollback, for a
\* block with contents mContents and a driver d with these wildcards:
\* result, err := tx.Exec(m.Contents)
execContents ==
    /\ sent = Unsent
    /\ sent' = mContents
    /\ UNCHANGED <<replaceVars, machine, parseVars, optionVars, findVars>>

\* Any contents of at most MaxContents pieces, any wildcards.
InitReplace ==
    /\ ledger = [b \in Backends |-> {}]
    /\ table = [b \in Backends |-> FALSE]
    /\ exists = [b \in Backends |-> TRUE]
    /\ DefaultWait
    /\ contents = EmptyText
    /\ blockText = NoBlockText
    /\ mContents \in ContentStrings
    /\ wildcards \in WildcardMaps
    /\ doReplacement \in BOOLEAN
    /\ NoFindInputs
    /\ Start

NextReplace == callContentsReplaced

SpecReplace == InitReplace /\ [][NextReplace]_vars

NextExec == execContents

SpecExec == InitReplace /\ [][NextExec]_vars

(***************************************************************************)
(* findMigrationFile and migrationVersion                                  *)
(***************************************************************************)

\* The characters of file names, with their codes: sort.Strings compares
\* byte by byte.  Every name ends in ".sql", left out here; "." is below
\* all of these.
Chars == {"0", "1", "_"}
Digits == {"0", "1"}
Code(c) == CASE c = "0" -> 48 [] c = "1" -> 49 [] c = "_" -> 95

FileNames == UNION {[1..n -> Chars] : n \in 1..MaxNames}

\* The directories of at most two files.
Directories == {{}} \cup {{f, g} : f, g \in FileNames}

\* A version: the digits a ledger row holds.
VersionStrings == UNION {[1..n -> Digits] : n \in 1..2}

\* a < b for strings, as sort.Strings orders them
RECURSIVE StringLess(_, _)
StringLess(a, b) ==
    IF a = <<>> THEN b # <<>>
    ELSE IF b = <<>> THEN FALSE
    ELSE IF Head(a) # Head(b) THEN Code(Head(a)) < Code(Head(b))
    ELSE StringLess(Tail(a), Tail(b))

\* re := regexp.MustCompile(fmt.Sprintf(`^%s.*\.sql$`, ver)); re.MatchString(name)
MatchesVer(name, v) ==
    Len(name) >= Len(v) /\ SubSeq(name, 1, Len(v)) = v

\* func findMigrationFiles(dir string, re *regexp.Regexp): the names that
\* match; sort.Strings puts the least first.
findMigrationFiles(dir, v) == {name \in dir : MatchesVer(name, v)}

\* func findMigrationFile(dir string, ver string) (string, error): files[0]
findMigrationFile(dir, v) ==
    LET files == findMigrationFiles(dir, v)
    IN  IF files = {} THEN [filename |-> <<>>, err |-> "ErrMigrationNotFound"]
        ELSE [filename |-> CHOOSE f \in files : \A g \in files \ {f} : StringLess(f, g),
              err |-> Nil]

\* func migrationVersion(filename string) string: regexp `^\d+`, the
\* longest run of digits the name starts with
RECURSIVE migrationVersion(_)
migrationVersion(filename) ==
    IF filename = <<>> \/ Head(filename) \notin Digits THEN <<>>
    ELSE <<Head(filename)>> \o migrationVersion(Tail(filename))

\* migrationFileRegexp = regexp.MustCompile(`^\d.*\.sql$`)
migrationFileRegexp(name) == name # <<>> /\ Head(name) \in Digits

\* A variant of sortStrings that puts the greatest name first.
RECURSIVE sortStrings_descending(_)
sortStrings_descending(matches) ==
    IF matches = {} THEN <<>>
    ELSE LET last == CHOOSE f \in matches :
                         \A g \in matches \ {f} : StringLess(g, f)
         IN  <<last>> \o sortStrings_descending(matches \ {last})

\* sort.Strings(matches)
RECURSIVE sortStrings(_)
sortStrings(matches) ==
    IF matches = {} THEN <<>>
    ELSE LET first == CHOOSE f \in matches :
                          \A g \in matches \ {f} : StringLess(f, g)
         IN  <<first>> \o sortStrings(matches \ {first})

\* migrate: files, err := findMigrationFiles(db.MigrationsDir,
\* migrationFileRegexp), the names of the directory that match, sorted.  The
\* directory does not change while Migrate runs.
files == sortStrings({name \in dirFiles : migrationFileRegexp(name)})

\* for _, filename := range files: the file the loop is at when fileIdx = i
filename(i) == files[i]

\* File names for Migrate's directory: four that match migrationFileRegexp
\* (01 < 0_ < 1 < 10 in byte order) and one that does not.
MigrationNames ==
    {<<"1">>, <<"0", "1">>, <<"1", "0">>, <<"0", "_">>, <<"_", "0">>}

\* The directories that hold NumFiles migration files.
MigrationDirs ==
    {d \in SUBSET MigrationNames :
        Cardinality({name \in d : migrationFileRegexp(name)}) = NumFiles}

\* New databases, and any directory of NumFiles migration files.
InitOrder ==
    /\ ledger = [b \in Backends |-> {}]
    /\ table = [b \in Backends |-> FALSE]
    /\ exists = [b \in Backends |-> TRUE]
    /\ DefaultWait
    /\ contents = EmptyText
    /\ blockText = NoBlockText
    /\ NoReplaceInputs
    /\ dirFiles \in MigrationDirs
    /\ findVer = <<"1">>
    /\ Start

\* Migrate run again and again over a directory of named files.
SpecOrder == InitOrder /\ [][NextMigrate]_vars

\* Rollback: filename, err := findMigrationFile(db.MigrationsDir, latest)
rollbackFindFile ==
    /\ foundFile = NotFound
    /\ foundFile' = findMigrationFile(dirFiles, findVer)
    /\ UNCHANGED <<dirFiles, findVer, machine, parseVars, optionVars, replaceVars, sent>>

\* Any directory, any latest version of the primary.
InitFind ==
    /\ ledger = [b \in Backends |-> {}]
    /\ table = [b \in Backends |-> FALSE]
    /\ exists = [b \in Backends |-> TRUE]
    /\ DefaultWait
    /\ contents = EmptyText
    /\ blockText = NoBlockText
    /\ NoReplaceInputs
    /\ dirFiles \in Directories
    /\ findVer \in VersionStrings
    /\ Start

NextFind == rollbackFindFile

SpecFind == InitFind /\ [][NextFind]_vars

(***************************************************************************)
(* DB.CreateAndMigrate                                                     *)
(***************************************************************************)

\* func (db *DB) CreateAndMigrate() error
CreateAndMigrate ==
    /\ Idle
    /\ Fresh("CreateAndMigrate", "c_wait")
    /\ UNCHANGED ledger
    /\ UNCHANGED <<table, outside>>

\* if db.WaitBefore { if err := db.wait(d); err != nil { return err } }
createAndMigrateWait ==
    /\ pc = "c_wait"
    /\ \/ /\ Return("ErrCantConnect", TRUE)
          /\ UNCHANGED idx
       \/ /\ idx' = 0
          /\ Goto("c_create")
    /\ UNCHANGED <<dbVars, op, applied, appliedSlaves, fileIdx, blocks, latest,
                   blockVars, calls, dumped>>
    /\ UNCHANGED <<table, outside>>

\* drv.DatabaseExists() answers an error, or whether the database exists.
DatabaseExists(b) == {"error", IF exists[b] THEN "true" ELSE "false"}

createFrame == <<dbVars, op, applied, appliedSlaves, fileIdx, blocks, latest,
                 blockVars, dumped, table, waitCfg, waitVars, statusVars, parseVars,
                 pureVars>>

\* A variant of createDatabaseIfMissing that creates whatever DatabaseExists
\* answered.
createDatabaseIfMissing_always ==
    /\ pc = "c_create"
    /\ \E r \in DatabaseExists(idx) :
          \/ /\ calls' = calls \o <<Call("DatabaseExists:" \o r, idx),
                                   Call("CreateDatabase", idx)>>
             /\ Return("ErrCreateDatabase", TRUE)
             /\ UNCHANGED <<exists, idx>>
          \/ /\ calls' = calls \o <<Call("DatabaseExists:" \o r, idx),
                                   Call("CreateDatabase", idx)>>
             /\ exists' = [exists EXCEPT ![idx] = TRUE]
             /\ idx' = idx + 1
             /\ Goto(IF idx = NumSlaves THEN "c_migrate" ELSE "c_create")
    /\ UNCHANGED createFrame

\* One backend of "create database if it does not already exist", the
\* primary (idx = 0) and then each replica:
\* exists, err := drv.DatabaseExists()
\* if err == nil && !exists { if err := drv.CreateDatabase(); err != nil { return err } }
createDatabaseIfMissing ==
    /\ pc = "c_create"
    /\ \E r \in DatabaseExists(idx) :
          IF r = "false"
          THEN \/ /\ calls' = calls \o <<Call("DatabaseExists:false", idx),
                                        Call("CreateDatabase", idx)>>
                  /\ Return("ErrCreateDatabase", TRUE)
                  /\ UNCHANGED <<exists, idx>>
               \/ /\ calls' = calls \o <<Call("DatabaseExists:false", idx),
                                        Call("CreateDatabase", idx)>>
                  /\ exists' = [exists EXCEPT ![idx] = TRUE]
                  /\ idx' = idx + 1
                  /\ Goto(IF idx = NumSlaves THEN "c_migrate" ELSE "c_create")
          ELSE /\ calls' = Append(calls, Call("DatabaseExists:" \o r, idx))
               /\ idx' = idx + 1
               /\ Goto(IF idx = NumSlaves THEN "c_migrate" ELSE "c_create")
               /\ UNCHANGED exists
    /\ UNCHANGED createFrame

\* return db.migrate(drv, slavesDrv): migrate runs on, its calls after these.
createAndMigrateRun ==
    /\ pc = "c_migrate"
    /\ op' = "Migrate"
    /\ idx' = 0
    /\ Goto("m_find")
    /\ UNCHANGED <<dbVars, applied, appliedSlaves, fileIdx, blocks, latest,
                   blockVars, calls, dumped>>
    /\ UNCHANGED <<table, outside>>

\* New servers: any of the databases may be missing.
InitCreate ==
    /\ ledger = [b \in Backends |-> {}]
    /\ table = [b \in Backends |-> FALSE]
    /\ exists \in [Backends -> BOOLEAN]
    /\ DefaultWait
    /\ contents = EmptyText
    /\ NoPureInputs
    /\ Start

NextCreateAndMigrate ==
    \/ CreateAndMigrate
    \/ createAndMigrateWait
    \/ createDatabaseIfMissing
    \/ createAndMigrateRun
    \/ migrateFindFiles
    \/ migrateOpen

SpecCreateAndMigrate == InitCreate /\ [][NextCreateAndMigrate]_vars

(***************************************************************************)
(* DB.wait                                                                 *)
(***************************************************************************)

\* []Driver{drv}, slavesDrv, and drv followed by slavesDrv.
MasterDriver == <<Master>>
SlaveDrivers == [k \in 1..NumSlaves |-> k]
AllDrivers == MasterDriver \o SlaveDrivers

\* The lists wait is called with: by Wait, dumpSchema and migrate (the
\* primary, then the replicas), by Create and CreateAndMigrate, and by Drop
\* (GetAllDrivers with the replicas appended once more).
WaitLists == {MasterDriver, SlaveDrivers, AllDrivers, AllDrivers \o SlaveDrivers}

(***************************************************************************)
(* DB.Create and DB.Drop                                                   *)
(***************************************************************************)

\* Create: drvs := []Driver{drv}; drvs = append(drvs, slavesDrv...)
\* Drop: drvs, err := db.GetAllDrivers(); drvs = append(drvs, slavesDrv...)
drvs == IF op = "Drop" THEN AllDrivers \o SlaveDrivers ELSE AllDrivers

\* func (db *DB) Create() error
Create ==
    /\ Idle
    /\ Fresh("Create", "cr_wait")
    /\ UNCHANGED ledger
    /\ UNCHANGED <<table, outside>>

\* if db.WaitBefore { if err := db.wait(drvs); err != nil { return err } }
createWait ==
    /\ pc = "cr_wait"
    /\ \/ /\ Return("ErrCantConnect", TRUE)
          /\ UNCHANGED idx
       \/ /\ idx' = 1
          /\ Goto("cr_loop")
    /\ UNCHANGED <<calls, exists>>
    /\ UNCHANGED createFrame

\* for _, d := range drvs { if err := d.CreateDatabase(); err != nil { return err } }
\* return nil: one driver of the loop.
createDatabase ==
    /\ pc = "cr_loop"
    /\ calls' = Append(calls, Call("CreateDatabase", drvs[idx]))
    /\ \/ /\ Return("ErrCreateDatabase", TRUE)
          /\ UNCHANGED <<exists, idx>>
       \/ /\ exists' = [exists EXCEPT ![drvs[idx]] = TRUE]
          /\ idx' = idx + 1
          /\ IF idx = Len(drvs) THEN Return(Nil, FALSE) ELSE Goto("cr_loop")
    /\ UNCHANGED createFrame

\* func (db *DB) Drop() error
Drop ==
    /\ Idle
    /\ Fresh("Drop", "dr_wait")
    /\ UNCHANGED ledger
    /\ UNCHANGED <<table, outside>>

\* if db.WaitBefore { if err := db.wait(drvs); err != nil { return err } }
dropWait ==
    /\ pc = "dr_wait"
    /\ \/ /\ Return("ErrCantConnect", TRUE)
          /\ UNCHANGED idx
       \/ /\ idx' = 1
          /\ Goto("dr_loop")
    /\ UNCHANGED <<calls, exists>>
    /\ UNCHANGED createFrame

\* for _, drv := range drvs { if err := drv.DropDatabase(); err != nil { return err } }
\* return nil: one driver of the loop.
dropDatabase ==
    /\ pc = "dr_loop"
    /\ calls' = Append(calls, Call("DropDatabase", drvs[idx]))
    /\ \/ /\ Return("ErrDropDatabase", TRUE)
          /\ UNCHANGED <<exists, idx>>
       \/ /\ exists' = [exists EXCEPT ![drvs[idx]] = FALSE]
          /\ idx' = idx + 1
          /\ IF idx = Len(drvs) THEN Return(Nil, FALSE) ELSE Goto("dr_loop")
    /\ UNCHANGED createFrame

NextCreateDrop ==
    \/ Create
    \/ createWait
    \/ createDatabase
    \/ Drop
    \/ dropWait
    \/ dropDatabase
    \/ CreateAndMigrate
    \/ createAndMigrateWait
    \/ createDatabaseIfMissing
    \/ createAndMigrateRun
    \/ migrateFindFiles
    \/ migrateOpen

\* Create, Drop and CreateAndMigrate, in any order, on servers where any of
\* the databases may be missing.
SpecCreateDrop == InitCreate /\ [][NextCreateDrop]_vars

\* Any configuration with a positive interval, before the first call.
InitWait ==
    /\ ledger = [b \in Backends |-> {}]
    /\ table = [b \in Backends |-> FALSE]
    /\ exists = [b \in Backends |-> TRUE]
    /\ WaitTimeout \in 0..MaxWaitTimeout
    /\ WaitInterval \in 1..MaxWaitInterval
    /\ contents = EmptyText
    /\ NoPureInputs
    /\ Start

orchVars == <<dbVars, table, exists, locals, blockVars, calls, dumped, statusVars,
              parseVars, pureVars>>

IsPing(e) == e.ev = "Ping"

\* drv.Ping() answers nil (0) or an error of its own, a number no other Ping
\* of this wait answers.
PingResults ==
    {0, (drvIdx - 1) * (MaxWaitTimeout + 2) + Len(SelectSeq(waitLog, IsPing)) + 1}

\* What wait's log says of the driver it is leaving.
Answered == \E j \in DOMAIN waitLog : waitLog[j].ev = "Ping" /\ waitLog[j].res = 0

PingEvent(e) == [ev |-> "Ping", pos |-> drvIdx, b |-> drivers[drvIdx], res |-> e]
SleepEvent == [ev |-> "Sleep", pos |-> drvIdx, b |-> drivers[drvIdx], res |-> 0]

\* func (db *DB) wait(d []Driver) error, called with one of its lists
wait ==
    /\ Idle
    /\ \E dl \in WaitLists : drivers' = dl
    /\ Fresh("wait", "w_ping")
    /\ drvIdx' = 1
    /\ elapsed' = 0
    /\ successful' = FALSE
    /\ pingErr' = 0
    /\ wrapped' = 0
    /\ waitLog' = <<>>
    /\ waited' = <<>>
    /\ UNCHANGED <<ledger, table, exists, waitCfg, statusVars, parseVars, pureVars>>

\* successful := false; err := drv.Ping(); if err == nil { successful = true }
waitPing ==
    /\ pc = "w_ping"
    /\ \E e \in PingResults :
          /\ waitLog' = Append(waitLog, PingEvent(e))
          /\ pingErr' = e
          /\ successful' = (e = 0)
          /\ elapsed' = 0
          /\ Goto(IF e = 0 THEN "w_check" ELSE "w_loop")
    /\ UNCHANGED <<orchVars, op, waitCfg, drivers, drvIdx, wrapped, waited>>

\* for i := 0 * time.Second; i < db.WaitTimeout; i += db.WaitInterval {
\*     time.Sleep(db.WaitInterval); err = drv.Ping()
\*     if err == nil { successful = true } }
waitLoop ==
    /\ pc = "w_loop"
    /\ IF elapsed < WaitTimeout
       THEN \E e \in PingResults :
               /\ waitLog' = IF Len(waitLog) + 2 > MaxLog THEN waitLog
                             ELSE waitLog \o <<SleepEvent, PingEvent(e)>>
               /\ pingErr' = e
               /\ successful' = (successful \/ e = 0)
               /\ elapsed' = elapsed + WaitInterval
               /\ Goto("w_loop")
       ELSE /\ Goto("w_check")
            /\ UNCHANGED <<waitLog, pingErr, successful, elapsed>>
    /\ UNCHANGED <<orchVars, op, waitCfg, drivers, drvIdx, wrapped, waited>>

\* A variant of waitCheck that goes on to the next driver whether or not
\* this one answered.
waitCheck_ignoreUnreachable ==
    /\ pc = "w_check"
    /\ IF drvIdx = Len(drivers)
       THEN /\ Return(Nil, FALSE)
            /\ UNCHANGED <<drvIdx, waitLog, waited>>
       ELSE /\ drvIdx' = drvIdx + 1
            /\ waited' = Append(waited, [b |-> drivers[drvIdx], answered |-> Answered])
            /\ waitLog' = <<>>
            /\ Goto("w_ping")
    /\ UNCHANGED <<orchVars, op, waitCfg, drivers, elapsed, successful, pingErr,
                   wrapped>>

\* if !successful { return fmt.Errorf("%w: %s", ErrCantConnect, err) }, the
\* next driver of d, and return nil after the last.
waitCheck ==
    /\ pc = "w_check"
    /\ IF ~successful
       THEN /\ Return("ErrCantConnect", TRUE)
            /\ wrapped' = pingErr
            /\ UNCHANGED <<drvIdx, waitLog, waited>>
       ELSE IF drvIdx = Len(drivers)
       THEN /\ Return(Nil, FALSE)
            /\ UNCHANGED <<drvIdx, wrapped, waitLog, waited>>
       ELSE /\ drvIdx' = drvIdx + 1
            /\ waited' = Append(waited, [b |-> drivers[drvIdx], answered |-> Answered])
            /\ waitLog' = <<>>
            /\ Goto("w_ping")
            /\ UNCHANGED wrapped
    /\ UNCHANGED <<orchVars, op, waitCfg, drivers, elapsed, successful, pingErr>>

NextWait ==
    \/ wait
    \/ waitPing
    \/ waitLoop
    \/ waitCheck

SpecWait == InitWait /\ [][NextWait]_vars

\* Any configuration, WaitInterval = 0 too, before the first call.
InitWaitAny ==
    /\ ledger = [b \in Backends |-> {}]
    /\ table = [b \in Backends |-> FALSE]
    /\ exists = [b \in Backends |-> TRUE]
    /\ WaitTimeout \in 0..MaxWaitTimeout
    /\ WaitInterval \in 0..MaxWaitInterval
    /\ contents = EmptyText
    /\ NoPureInputs
    /\ Start

\* wait is sequential code whose Ping and time.Sleep calls return: once it
\* is called, its next statement runs.
SpecWaitLive ==
    InitWaitAny /\ [][NextWait]_vars /\ WF_vars(waitPing \/ waitLoop \/ waitCheck)

(***************************************************************************)
(* Properties                                                              *)
(***************************************************************************)

Returned(o) == op = o /\ pc = "done"

IsBlockCall(c) == c.kind # "none"

BlockCalls == SelectSeq(calls, IsBlockCall)

\* The latest applied version of a ledger, 0 for none.
LatestOf(l) == IF l = {} THEN 0 ELSE Max(l)

\* The last block application of the running operation, and whether it failed.
InBlock == cur.kind # "none"
BlockFailed == InBlock /\ tx.err # Nil

\* C1: whenever Migrate returns success, the primary's ledger holds the
\* version of every migration file, whatever the ledgers held before.
C1_MigrateSuccessPrimaryHasAll ==
    (Returned("Migrate") /\ err = Nil) => \A f \in Files : f \in ledger[Master]

\* C1: a successful Migrate on a primary that held nothing while a replica did.
C1_Witness ==
    /\ Returned("Migrate")
    /\ err = Nil
    /\ ledger0[Master] = {}
    /\ \E s \in Slaves : ledger0[s] # {}

\* C2: Rollback, when some replica's latest applied version differs from the
\* primary's latest v, returns NoRollbackSlaves having executed no block and
\* deleted no ledger row (stated for calls in which nothing else fails).
C2_DivergentRollbackRefused ==
    ( /\ Returned("Rollback")
      /\ ~injected
      /\ ledger0[Master] # {}
      /\ \E s \in Slaves : LatestOf(ledger0[s]) # LatestOf(ledger0[Master]) )
    => /\ err = "ErrNoRollbackSlaves"
       /\ BlockCalls = <<>>
       /\ ledger = ledger0

\* C3: whenever Rollback returns success for the primary's latest version v,
\* v is absent from the ledger of the primary and of every replica.
C3_RollbackSuccessRemoved ==
    (Returned("Rollback") /\ err = Nil)
    => /\ latest = LatestOf(ledger0[Master])
       /\ latest # 0
       /\ \A b \in Backends : latest \notin ledger[b]

\* C3: a successful Rollback of a version every backend held.
C3_Witness ==
    /\ Returned("Rollback")
    /\ err = Nil
    /\ \A b \in Backends : latest \in ledger0[b]

\* C4: during Migrate a version's block is executed on a backend only if
\* that backend's ledger did not record the version when Migrate was called.
C4_OnlyMissingBackendsExecute ==
    op = "Migrate" =>
        \A i \in DOMAIN calls :
            calls[i].call = "Exec" => calls[i].ver \notin ledger0[calls[i].b]

\* C5: on databases that started empty, a Migrate run after aborted ones, in
\* which no driver call fails for a fresh insert, returns success, leaves every
\* version on every backend and executes blocks for the missing
\* (version, backend) pairs only; also when InsertMigration rejects a version
\* the ledger already holds.
C5_MigrateReentrant ==
    (Returned("Migrate") /\ ~injected)
    => /\ err = Nil
       /\ \A b \in Backends : Versions \subseteq ledger[b]
       /\ \A i \in DOMAIN calls :
             IsBlockCall(calls[i]) => calls[i].ver \notin ledger0[calls[i].b]

\* The place of a block call in Migrate's order: files in order, and within
\* a file the replicas by index, then the primary.
MigrateRank(c) ==
    c.ver * (NumSlaves + 2) + (IF c.b = Master THEN NumSlaves + 1 ELSE c.b)

\* C6: for each file Migrate applies, the replica applications come before
\* the primary's, in replica index order; a failed application on replica i
\* is returned at once, with nothing executed on a replica of higher index,
\* on the primary for that file, or for a later file.
C6_ReplicasFirstFailFast ==
    op = "Migrate" =>
        /\ LET bc == BlockCalls
           IN  \A i \in 1..(Len(bc) - 1) : MigrateRank(bc[i]) <= MigrateRank(bc[i + 1])
        /\ cur.kind = "up" =>
              \A s \in Slaves :
                 /\ cur.ver \in ledger[s]
                 /\ cur.ver \notin ledger0[s] =>
                       \E j \in DOMAIN calls :
                          /\ calls[j].call = "InsertMigration"
                          /\ calls[j].b = s
                          /\ calls[j].ver = cur.ver
        /\ (cur.kind = "up:slave" /\ BlockFailed) =>
              /\ pc = "done"
              /\ err = tx.err
              /\ \A j \in DOMAIN calls :
                    IsBlockCall(calls[j]) =>
                       /\ calls[j].ver <= cur.ver
                       /\ calls[j].ver = cur.ver =>
                             (calls[j].b # Master /\ calls[j].b <= cur.b)
              /\ \A b \in Backends :
                    (b = Master \/ b > cur.b) =>
                       /\ cur.ver \in ledger[b] <=> cur.ver \in ledger0[b]
                       /\ \A k \in {"up", "up:slave"} : <<k, cur.ver>> \notin effects[b]

\* C6: Migrate stopped by the failure of the first file's block on the first
\* of several replicas.
C6_Witness ==
    /\ Returned("Migrate")
    /\ BlockFailed
    /\ cur.kind = "up:slave"
    /\ cur.b = 1
    /\ cur.ver = 1
    /\ NumSlaves >= 2
    /\ NumFiles >= 2

\* C7: a block whose transaction option is true is atomic on its backend:
\* its contents and the ledger row take effect together at the commit, and
\* after a failure the backend's effects and ledger are as before the block.
C7_TransactionAtomic ==
    (InBlock /\ cur.opt) =>
        \/ /\ tx.status = "committed"
           /\ ledger[cur.b] = Recorded(pre.led, cur.ver)
           /\ effects[cur.b] = pre.eff \cup {<<cur.kind, cur.ver>>}
        \/ /\ tx.status \in {"beginFailed", "rolledBack", "rollbackFailed",
                             "commitFailed"}
           /\ ledger[cur.b] = pre.led
           /\ effects[cur.b] = pre.eff

\* C7: a transaction rolled back after its contents ran and the ledger
\* mutation failed.
C7_Witness ==
    /\ InBlock
    /\ cur.opt
    /\ tx.status = "rolledBack"
    /\ tx.cbErr \in {"ErrInsert", "ErrDelete"}

\* C8: doTransaction returns the callback's error when the callback fails
\* and the rollback succeeds, the rollback's error only when the rollback
\* fails, never commits after a callback error, and returns the commit's
\* result when the callback succeeds.
C8_doTransactionResult ==
    (InBlock /\ tx.status # "bare") =>
        /\ tx.cbErr # Nil <=> tx.status \in {"rolledBack", "rollbackFailed"}
        /\ tx.status = "rolledBack" => tx.err = tx.cbErr
        /\ tx.err = "ErrRollback" <=> tx.status = "rollbackFailed"
        /\ tx.status = "committed" => tx.err = Nil
        /\ tx.status = "commitFailed" => tx.err = "ErrCommit"
        /\ tx.cbErr # Nil =>
              /\ ledger[cur.b] = pre.led
              /\ effects[cur.b] = pre.eff

\* C8: a callback failure followed by a failing rollback.
C8_Witness ==
    /\ InBlock
    /\ tx.status = "rollbackFailed"
    /\ tx.cbErr = "ErrExec"

\* C9: a block whose transaction option is false runs on the bare handle:
\* when its contents succeed and the ledger mutation fails, the operation
\* returns that error, the contents' effects stay and the ledger is unchanged.
C9_BareHandleUnrecorded ==
    (InBlock /\ ~cur.opt /\ tx.cbErr \in {"ErrInsert", "ErrDelete"}) =>
        /\ tx.status = "bare"
        /\ pc = "done"
        /\ err = tx.cbErr
        /\ <<cur.kind, cur.ver>> \in effects[cur.b]
        /\ ledger[cur.b] = pre.led

\* C9: Migrate returning the failure of InsertMigration on a bare handle,
\* the version unrecorded.
C9_Witness ==
    /\ Returned("Migrate")
    /\ InBlock
    /\ ~cur.opt
    /\ err = "ErrInsert"
    /\ cur.ver \notin ledger[cur.b]
    /\ <<cur.kind, cur.ver>> \in effects[cur.b]

\* C10: Rollback runs the primary's down block and DeleteMigration(v) before
\* any replica's; when the primary's step fails it returns the error with no
\* replica modified; replicas follow in index order and the first failure
\* stops the remaining ones.
C10_RollbackPrimaryFirst ==
    op = "Rollback" =>
        /\ LET bc == BlockCalls
           IN  \A i \in 1..(Len(bc) - 1) : bc[i].b <= bc[i + 1].b
        /\ cur.kind = "down:slave" =>
              /\ \E j \in DOMAIN calls :
                    /\ calls[j].call = "DeleteMigration"
                    /\ calls[j].b = Master
                    /\ calls[j].ver = latest
              /\ \A b \in Backends : b < cur.b => latest \notin ledger[b]
        /\ BlockFailed =>
              /\ pc = "done"
              /\ err = tx.err
              /\ \A s \in Slaves :
                    s > cur.b =>
                       /\ ledger[s] = ledger0[s]
                       /\ effects[s] = {}
                       /\ \A j \in DOMAIN calls :
                             IsBlockCall(calls[j]) => calls[j].b # s

\* C10: Rollback stopped by the failure of the primary's step while every
\* replica held the version.
C10_Witness ==
    /\ Returned("Rollback")
    /\ BlockFailed
    /\ cur.kind = "down"
    /\ \A s \in Slaves : latest \in ledger0[s]

\* The Pings of wait's log, in order.
Pings == SelectSeq(waitLog, IsPing)

\* The passes of wait's polling loop: the least n with n * WaitInterval >=
\* WaitTimeout.
Passes == (WaitTimeout + WaitInterval - 1) \div WaitInterval

\* C11: wait stops polling a driver as soon as one of its Pings succeeds: no
\* Ping and no sleep for that driver follows its first successful Ping.
C11_WaitStopsAtSuccess ==
    op = "wait" =>
        \A j \in DOMAIN waitLog :
            (waitLog[j].ev = "Ping" /\ waitLog[j].res = 0) => j = Len(waitLog)

\* C12: wait returns CantConnect, wrapping the last Ping's error, exactly
\* when every Ping of some driver failed up to the timeout; the drivers are
\* waited on in the order of the list, and none after an unreachable one.
C12_CantConnect ==
    op = "wait" =>
        /\ \A j \in DOMAIN waitLog :
              waitLog[j].pos = drvIdx /\ waitLog[j].b = drivers[drvIdx]
        /\ Len(waited) = drvIdx - 1
        /\ \A k \in DOMAIN waited : waited[k].b = drivers[k] /\ waited[k].answered
        /\ pc = "done" =>
              /\ err \in {Nil, "ErrCantConnect"}
              /\ err = "ErrCantConnect" <=>
                    /\ Len(Pings) = 1 + Passes
                    /\ \A j \in DOMAIN Pings : Pings[j].res # 0
              /\ err = "ErrCantConnect" =>
                    /\ wrapped # 0
                    /\ wrapped = waitLog[Len(waitLog)].res
              /\ err = Nil => (drvIdx = Len(drivers) /\ Answered)

\* C12: wait gives up on a replica after polling it to the timeout, the
\* primary having answered.
C12_Witness ==
    /\ Returned("wait")
    /\ err = "ErrCantConnect"
    /\ drvIdx = 2
    /\ drivers[2] = 1
    /\ WaitTimeout >= 2
    /\ Len(Pings) >= 3

\* C14: a failure of the trailing schema dump never changes the result of
\* Migrate or Rollback, and the dump is attempted only after every file
\* (Migrate) or every backend (Rollback) was processed without error.
C14_DumpFailureIgnored ==
    (op \in {"Migrate", "Rollback"} /\ pc = "done") =>
        /\ dumped = "failed" => err = Nil
        /\ dumped # "none" =>
              /\ err = Nil
              /\ ~BlockFailed
              /\ op = "Migrate" =>
                    (fileIdx = NumFiles + 1 /\ Versions \subseteq ledger[Master])
              /\ op = "Rollback" =>
                    (cur.b = NumSlaves /\ \A b \in Backends : latest \notin ledger[b])
        /\ err # Nil =>
              /\ dumped = "none"
              /\ \A j \in DOMAIN calls : calls[j].call # "DumpSchema"

\* C14: Migrate returning success although its schema dump failed in the
\* driver's DumpSchema.
C14_Witness ==
    /\ Returned("Migrate")
    /\ err = Nil
    /\ dumped = "failed"
    /\ calls[Len(calls)].call = "DumpSchema"
    /\ ledger0[Master] = {}

\* C15: if the primary's ledger holds no applied version, Rollback returns
\* NoRollback (when no call fails before), executes no block and deletes no
\* ledger row on any backend.
C15_NoRollback ==
    (op = "Rollback" /\ ledger0[Master] = {}) =>
        /\ BlockCalls = <<>>
        /\ ledger = ledger0
        /\ \A b \in Backends : effects[b] = {}
        /\ (pc = "done" /\ ~injected) => err = "ErrNoRollback"
        /\ err = "ErrNoRollback" => handles = {}

\* C15: NoRollback on an empty primary while a replica still holds a version.
C15_Witness ==
    /\ Returned("Rollback")
    /\ err = "ErrNoRollback"
    /\ ledger0[Master] = {}
    /\ \E s \in Slaves : ledger0[s] # {}

\* C13: every database handle opened by Migrate, Rollback, DumpSchema or
\* Status is released by the time the operation returns, on every exit path;
\* while it runs it holds handles of backends it has opened only.
C13_HandlesReleased ==
    /\ pc \in {"idle", "done"} => handles = {}
    /\ \A b \in handles : \E j \in DOMAIN calls : calls[j] = Call("Open", b)

\* C13: Rollback returning NoRollbackSlaves with the handles of the primary
\* and of two replicas opened.
C13_Witness ==
    /\ Returned("Rollback")
    /\ err = "ErrNoRollbackSlaves"
    /\ handles = {}
    /\ \A b \in 0..2 : \E j \in DOMAIN calls : calls[j] = Call("Open", b)

\* C16 as stated: every SelectMigrations call the orchestrator makes on a
\* handle is preceded by a CreateMigrationsTable call on that handle.
C16_SelectAfterCreate ==
    \A i \in DOMAIN calls :
        calls[i].call = "SelectMigrations" =>
            \E j \in 1..(i - 1) :
                calls[j].call = "CreateMigrationsTable" /\ calls[j].b = calls[i].b

\* C16 amended: every SelectMigrations call of Migrate and Rollback is
\* preceded by a CreateMigrationsTable call on the same handle; Status calls
\* no CreateMigrationsTable and reads the ledger right after
\* MigrationsTableExists answered true; when Open or CreateMigrationsTable
\* fails, the handle is released and the error returned with no ledger read
\* on that backend.
C16_SelectAfterCreateOrExists ==
    /\ op \in {"Migrate", "Rollback"} => C16_SelectAfterCreate
    /\ op = "Status" =>
          \A i \in DOMAIN calls :
              /\ calls[i].call # "CreateMigrationsTable"
              /\ calls[i].call = "SelectMigrations" =>
                    /\ i > 1
                    /\ calls[i - 1] = Call("MigrationsTableExists", calls[i].b)
                    /\ table[calls[i].b]
    /\ err \in {"ErrOpen", "ErrCreateMigrationsTable"} =>
          /\ pc = "done"
          /\ handles = {}
          /\ LET last == calls[Len(calls)]
             IN  /\ last.call = (IF err = "ErrOpen" THEN "Open" ELSE "CreateMigrationsTable")
                 /\ \A j \in DOMAIN calls :
                       calls[j].call = "SelectMigrations" => calls[j].b # last.b

\* C16: Migrate stopped by a replica's CreateMigrationsTable after it read
\* the primary's ledger.
C16_Witness ==
    /\ Returned("Migrate")
    /\ err = "ErrCreateMigrationsTable"
    /\ calls[Len(calls)].b = 1
    /\ \E j \in DOMAIN calls : calls[j] = Call("SelectMigrations", Master)

\* C17: Status returns the number of files whose version is not in the
\* primary's ledger (all of them when the ledger table does not exist),
\* whatever quiet is; it changes no ledger and creates no ledger table.
C17_StatusPending ==
    /\ [](Returned("Status") =>
            /\ err = Nil =>
                  /\ pending = Cardinality({f \in Files : f \notin ledger[Master]})
                  /\ ~table[Master] => pending = NumFiles
            /\ err # Nil => pending = -1
            /\ ledger = ledger0)
    /\ [][op' = "Status" => (ledger' = ledger /\ table' = table)]_vars

\* C17: a quiet Status counting one pending file among applied ones.
C17_Witness ==
    /\ Returned("Status")
    /\ err = Nil
    /\ quiet
    /\ pending = 1
    /\ ledger[Master] # {}

\* The DatabaseExists and CreateDatabase calls of the log, in order.
IsCreateCall(c) ==
    c.call \in {"DatabaseExists:true", "DatabaseExists:false", "DatabaseExists:error",
                "CreateDatabase"}

\* C18: CreateAndMigrate calls CreateDatabase on a backend, the primary first
\* and then each replica in order, exactly when that backend's DatabaseExists
\* answered false without error; an error of DatabaseExists skips the
\* creation without aborting; an error of CreateDatabase aborts before
\* Migrate; otherwise Migrate is invoked after all backends were handled.
C18_CreateThenMigrate ==
    LET cc == SelectSeq(calls, IsCreateCall)
    IN  /\ \A i \in DOMAIN cc :
              /\ i > 1 => cc[i - 1].b <= cc[i].b
              /\ cc[i].call = "CreateDatabase" =>
                    (i > 1 /\ cc[i - 1] = Call("DatabaseExists:false", cc[i].b))
              /\ cc[i].call = "DatabaseExists:false" =>
                    (i < Len(cc) /\ cc[i + 1] = Call("CreateDatabase", cc[i].b))
              /\ cc[i].call # "CreateDatabase" =>
                    (i = 1 \/ cc[i - 1].b = cc[i].b - 1)
        /\ cc # <<>> => cc[1].b = Master
        /\ err = "ErrCreateDatabase" =>
              /\ pc = "done"
              /\ op = "CreateAndMigrate"
              /\ calls[Len(calls)].call = "CreateDatabase"
              /\ cc = calls
        /\ op = "CreateAndMigrate" =>
              /\ cc = calls
              /\ pc = "done" => err \in {"ErrCantConnect", "ErrCreateDatabase"}
        /\ op = "Migrate" =>
              /\ \A b \in Backends : \E i \in DOMAIN cc :
                    /\ cc[i].b = b
                    /\ cc[i].call # "CreateDatabase"
                    /\ cc[i].call = "DatabaseExists:false" => exists[b]
              /\ \A i \in 1..Len(cc) : calls[i] = cc[i]

\* C18: Migrate running after a replica's DatabaseExists failed, the primary
\* having been created.
C18_Witness ==
    /\ op = "Migrate"
    /\ pc = "m_select"
    /\ \E i \in DOMAIN calls : calls[i] = Call("CreateDatabase", Master)
    /\ \E i \in DOMAIN calls : calls[i] = Call("DatabaseExists:error", 1)

\* The text c has a line that is a directive of kind k.
HasDirective(c, k) == \E i \in DOMAIN c.lines : c.lines[i].kind = k

\* The text c has two lines that are directives of the same kind.
HasDuplicate(c) ==
    \E i, j \in DOMAIN c.lines :
        /\ i < j
        /\ c.lines[i].kind \in Directives
        /\ c.lines[i].kind = c.lines[j].kind

Parsed == parsed # NoParse

\* C19 as stated: parseMigrationContents never succeeds with an empty up
\* block: any text without a "-- migrate:up" block (no directive at all, or
\* only down / slave blocks) yields ParseMissingUp, and every successful
\* parse has non-empty up contents.
C19_MissingUp ==
    Parsed =>
        /\ ~HasDirective(contents, "up") => parsed.err = "ErrParseMissingUp"
        /\ parsed.err = Nil => parsed.up.Contents # EmptyText

\* C19, amended: a text without a "-- migrate:up" block never parses: it
\* yields ParseMissingUp, or ParseDuplicateBlock when two of its directives
\* have the same kind; every successful parse has non-empty up contents.
C19_MissingUpOrDuplicate ==
    Parsed =>
        /\ ~HasDirective(contents, "up") =>
              \/ parsed.err = "ErrParseMissingUp"
              \/ parsed.err = "ErrParseDuplicateBlock" /\ HasDuplicate(contents)
        /\ (~HasDirective(contents, "up") /\ ~HasDuplicate(contents)) =>
              parsed.err = "ErrParseMissingUp"
        /\ parsed.err = Nil => parsed.up.Contents # EmptyText

\* C19: a text of a down block and a down:slave block only was refused with
\* ParseMissingUp.
C19_Witness ==
    /\ Parsed
    /\ HasDirective(contents, "down")
    /\ HasDirective(contents, "down:slave")
    /\ ~HasDirective(contents, "up")
    /\ parsed.down.Contents # EmptyText
    /\ parsed.err = "ErrParseMissingUp"

\* C20: any migration text in which two directives of the same kind (up,
\* down, up:slave or down:slave) occur makes parseMigrationContents return
\* ParseDuplicateBlock, whatever options the directive lines carry.
C20_DuplicateBlock ==
    (Parsed /\ HasDuplicate(contents)) => parsed.err = "ErrParseDuplicateBlock"

\* The text c has a statement, a line neither empty nor a comment, before
\* its first directive.
StatementBeforeDirective(c) ==
    \E i, j \in DOMAIN c.lines :
        /\ i < j
        /\ c.lines[i].kind = "stmt"
        /\ c.lines[j].kind \in Directives

\* The lines of c before its first directive are all empty or comments.
CleanPrefix(c) ==
    \A i \in DOMAIN c.lines :
        c.lines[i].kind = "stmt" => \E j \in 1..(i - 1) : c.lines[j].kind \in Directives

\* C21: any migration text that has a non-empty, non-comment line strictly
\* before its first directive makes parseMigrationContents return
\* ParseUnexpectedStmt, for every combination of blocks that follows, also
\* when the up block is absent (stated here for the texts without two
\* directives of one kind, for which C20 asks for ParseDuplicateBlock); a
\* text whose prefix holds only blank and comment lines is not rejected
\* with ParseUnexpectedStmt.
C21_UnexpectedStmt ==
    Parsed =>
        /\ (StatementBeforeDirective(contents) /\ ~HasDuplicate(contents)) =>
              parsed.err = "ErrParseUnexpectedStmt"
        /\ CleanPrefix(contents) => parsed.err # "ErrParseUnexpectedStmt"

\* C22: a block's transaction option is determined by its directive line
\* alone: Transaction() is false exactly when the directive line carries the
\* pair transaction:false and true otherwise; text on later lines of the
\* block never changes it.
C22_TransactionFromDirective ==
    options # NoOptions =>
        /\ Transaction(options) = FALSE <=>
              \E i \in DOMAIN blockText.directive :
                  blockText.directive[i] = <<"transaction", "false">>
        /\ Transaction(options) =
              Transaction(parseMigrationOptions([blockText EXCEPT !.body = <<>>]))

\* The four results of parseMigrationContents that hold a block.
Slots == {"up", "down", "upSlave", "downSlave"}

\* Ways to line up some of the returned blocks, each at most once.
SlotOrders ==
    UNION {{o \in [1..n -> Slots] : \A i, j \in 1..n : o[i] = o[j] => i = j} :
           n \in 0..4}

\* The lines of the returned blocks r taken in the order o, from the i-th on.
RECURSIVE BlockLines(_, _, _)
BlockLines(r, o, i) ==
    IF i > Len(o) THEN <<>>
    ELSE r[o[i]].Contents.lines \o BlockLines(r, o, i + 1)

\* The lines of c before its first directive.
Prefix(c) ==
    LET d == {i \in DOMAIN c.lines : c.lines[i].kind \in Directives}
    IN  IF d = {} THEN c.lines
        ELSE SubSeq(c.lines, 1, (CHOOSE i \in d : \A j \in d : i <= j) - 1)

\* C23: for every text accepted by parseMigrationContents, the contents of
\* the returned blocks together with the prefix lines before the first
\* directive cover the entire file text: nothing of the input is outside
\* both, and no directive-introduced region is lost (stated for whole
\* lines: the prefix followed by the returned blocks, in the order of the
\* text, is the text).
C23_BlocksCoverText ==
    (Parsed /\ parsed.err = Nil) =>
        \E o \in SlotOrders :
            Prefix(contents) \o BlockLines(parsed, o, 1) = contents.lines

\* The text v holds a template: "{{", something, "}}".
HasTemplate(v) ==
    \E i \in DOMAIN v : i + 2 <= Len(v) /\ v[i] = "{{" /\ v[i + 2] = "}}"

\* The text v holds a "{{" or a "}}".
HasBraces(v) == \E i \in DOMAIN v : v[i] \in {"{{", "}}"}

\* In the text v every "{{" and every "}}" is part of a template {{name}}.
OnlyTemplates(v) ==
    \A i \in DOMAIN v :
        /\ v[i] = "{{" =>
              i + 2 <= Len(v) /\ v[i + 1] \in Wildcards /\ v[i + 2] = "}}"
        /\ v[i] = "}}" =>
              i > 2 /\ v[i - 1] \in Wildcards /\ v[i - 2] = "{{"

Occurrences(v, x) ==
    Cardinality({i \in DOMAIN v : i + 2 <= Len(v) /\ SubSeq(v, i, i + 2) = Template(x)})

\* C25: ContentsReplaced with the flag true replaces every literal {{k}} in
\* the contents by W[k] for each key k of the driver's wildcard mapping W
\* and leaves every {{x}} with x not in W intact; the result is a function
\* of the contents and W alone: it is the same in whatever order the keys
\* are visited.
C25_ReplacedIsFunction ==
    (replaced # <<>> /\ doReplacement) =>
        /\ \A o \in RangeOrders(wildcards) :
              replaced[1] = ContentsReplaced(mContents, wildcards, TRUE, o)
        /\ \A x \in Wildcards \ DOMAIN wildcards :
              Occurrences(replaced[1], x) >= Occurrences(mContents, x)
        /\ (\A k \in DOMAIN wildcards : Occurrences(mContents, k) = 0) =>
              replaced[1] = mContents

\* C26: starting from empty ledgers on all backends, after any sequence of
\* Migrate and Rollback calls in which any driver step may fail, every
\* version in the primary's ledger is also in every replica's ledger.
C26_PrimaryNeverAhead ==
    \A s \in Slaves : ledger[Master] \subseteq ledger[s]

\* C26: a Rollback that failed on the last replica has returned, after
\* Migrate had applied both files everywhere: that replica is ahead of the
\* primary.
C26_Witness ==
    /\ Returned("Rollback")
    /\ err # Nil
    /\ ledger[Master] = {1}
    /\ ledger[NumSlaves] = {1, 2}
    /\ \A s \in Slaves \ {NumSlaves} : ledger[s] = {1}

\* C27: Rollback never executes a down:slave block or DeleteMigration on a
\* replica whose ledger does not contain the version v being rolled back, in
\* particular not on a replica whose ledger is empty.
C27_RollbackOnlyWhereApplied ==
    op = "Rollback" =>
        \A i \in DOMAIN calls :
            (calls[i].b \in Slaves /\ calls[i].call \in {"Exec", "DeleteMigration"}) =>
                calls[i].ver \in ledger0[calls[i].b]

\* C28: the file whose down blocks Rollback executes has a version exactly
\* equal to the primary's latest applied version v (migrationVersion(file) =
\* v), for every set of file names in the directory, including names whose
\* versions have v as a proper prefix.
C28_FoundFileHasVersion ==
    (foundFile # NotFound /\ foundFile.err = Nil) =>
        migrationVersion(foundFile.filename) = findVer

\* C29: when wildcards are enabled, the text Migrate and Rollback send to
\* a backend for a block is the block's contents with every {{IDENT}} of
\* that backend's wildcard mapping replaced; the raw contents are executed
\* only when wildcards are disabled.
C29_ExecutesReplaced ==
    sent # Unsent =>
        IF doReplacement
        THEN \E o \in RangeOrders(wildcards) :
                 sent = ContentsReplaced(mContents, wildcards, TRUE, o)
        ELSE sent = mContents

\* The parseMigration calls of the log.
IsParseCall(c) == c.call \in {"parseMigration", "parseMigration:error"}

\* C30: if parsing a file fails during Migrate, Migrate returns the parse
\* error, executes no block of that file or of any later file on any
\* backend, and leaves the ledger rows written for earlier files in place; a
\* file already applied on the primary and on every replica is skipped
\* without being parsed.
C30_ParseErrorAborts ==
    op = "Migrate" =>
        \A i \in DOMAIN calls :
            /\ calls[i].call = "parseMigration:error" =>
                  /\ i = Len(calls)
                  /\ Returned("Migrate")
                  /\ err = "ErrParse"
                  /\ \A j \in DOMAIN calls :
                        IsBlockCall(calls[j]) => calls[j].ver < calls[i].ver
                  /\ \A b \in Backends :
                        ledger0[b] \cup 1..(calls[i].ver - 1) \subseteq ledger[b]
            /\ IsParseCall(calls[i]) =>
                  \E b \in Backends : calls[i].ver \notin ledger0[b]

\* C30: Migrate has returned the parse error of the second file after it
\* applied the first one to backends that lacked it.
C30_Witness ==
    /\ Returned("Migrate")
    /\ err = "ErrParse"
    /\ calls[Len(calls)] = ParseCall(2, FALSE)
    /\ 1 \in ledger[Master] \ ledger0[Master]
    /\ \E s \in Slaves : 1 \in ledger0[s]

\* C31: Migrate processes migration files in ascending lexicographic order
\* of file name: within one run, no block of a file is executed on any
\* backend before all blocks selected for every lexicographically smaller
\* file have completed.
C31_FilesInLexicographicOrder ==
    op = "Migrate" =>
        LET bc == BlockCalls
        IN  \A j \in DOMAIN bc :
                /\ \A i \in 1..(j - 1) :
                      ~StringLess(filename(bc[j].ver), filename(bc[i].ver))
                /\ \A w \in Files :
                      StringLess(filename(w), filename(bc[j].ver)) =>
                          \A b \in Backends :
                              w \notin ledger0[b] =>
                                  /\ w \in ledger[b]
                                  /\ \E i \in 1..(j - 1) :
                                        /\ bc[i].ver = w
                                        /\ bc[i].b = b
                                        /\ bc[i].call = "InsertMigration"

\* C31: Migrate has run blocks of the file 0_ and then of the file 10 of a
\* directory that also holds a name that is no migration file.
C31_Witness ==
    /\ op = "Migrate"
    /\ dirFiles = {<<"1", "0">>, <<"0", "_">>, <<"_", "0">>}
    /\ \E i, j \in DOMAIN calls :
          /\ i < j
          /\ IsBlockCall(calls[i]) /\ filename(calls[i].ver) = <<"0", "_">>
          /\ IsBlockCall(calls[j]) /\ filename(calls[j].ver) = <<"1", "0">>

\* Transaction() of the block of that kind among the blocks the operation
\* parsed.
OptionOf(kind) ==
    CASE kind = "up" -> blocks.up
      [] kind = "up:slave" -> blocks.upSlave
      [] kind = "down" -> blocks.down
      [] kind = "down:slave" -> blocks.downSlave

\* A block has just been applied.
BlockApplied ==
    /\ InBlock'
    /\ \/ blockVars' # blockVars
       \/ Len(calls') > Len(calls) /\ IsBlockCall(calls'[Len(calls')])

\* C32: in Migrate and Rollback the primary only ever executes the file's
\* up / down block and a replica only ever executes the file's up:slave /
\* down:slave block, each under the transaction option of the block that is
\* executed on that backend.
C32_BlockPerBackend ==
    [][BlockApplied =>
          /\ op \in {"Migrate", "Rollback"}
          /\ cur'.b = Master =>
                cur'.kind = (IF op = "Migrate" THEN "up" ELSE "down")
          /\ cur'.b \in Slaves =>
                cur'.kind = (IF op = "Migrate" THEN "up:slave" ELSE "down:slave")
          /\ cur'.opt = OptionOf(cur'.kind)
          /\ tx'.status = "bare" <=> ~cur'.opt
          /\ \A i \in (Len(calls) + 1)..Len(calls') :
                /\ calls'[i].b = cur'.b
                /\ calls'[i].kind = cur'.kind]_vars

\* C32: a replica has run the down:slave block outside a transaction in a
\* Rollback whose down block asks for one.
C32_Witness ==
    /\ op = "Rollback"
    /\ InBlock
    /\ cur.b \in Slaves
    /\ cur.kind = "down:slave"
    /\ ~cur.opt
    /\ tx.status = "bare"
    /\ blocks.down
    /\ \E i \in DOMAIN calls : calls[i].b = Master /\ calls[i].kind = "down"

\* The result of parseMigrationContents that is named by a directive kind.
SlotOf(k) ==
    CASE k = "up" -> "up"
      [] k = "down" -> "down"
      [] k = "up:slave" -> "upSlave"
      [] k = "down:slave" -> "downSlave"

\* C33: every line that matches the documented block-directive pattern
\* starts a block, and that block is stored in exactly the one slot named
\* by its directive kind or the parse fails with ParseDuplicateBlock; no
\* directive block is silently dropped or stored in two slots, whatever
\* number of options its line carries.
C33_EveryDirectiveStored ==
    (Parsed /\ parsed.err # "ErrParseDuplicateBlock") =>
        \A i \in DOMAIN contents.lines :
            contents.lines[i].kind \in Directives =>
                LET own == SlotOf(contents.lines[i].kind)
                IN  /\ parsed[own].Contents # EmptyText
                    /\ parsed[own].Contents.lines[1] = contents.lines[i]
                    /\ \A i2 \in 2..Len(parsed[own].Contents.lines) :
                          parsed[own].Contents.lines[i2].kind \notin Directives
                    /\ \A other \in Slots \ {own} :
                          parsed[other].Contents # parsed[own].Contents

\* C34: Create calls CreateDatabase, and Drop calls DropDatabase, on the
\* primary and then on every replica in index order, stopping at the first
\* error; each backend receives the call at most once per operation.
C34_EachBackendOnce ==
    op \in {"Create", "Drop"} =>
        /\ \A i \in DOMAIN calls :
              /\ calls[i].call = (IF op = "Create" THEN "CreateDatabase"
                                  ELSE "DropDatabase")
              /\ calls[i].b = i - 1
        /\ \A i, j \in DOMAIN calls : calls[i].b = calls[j].b => i = j
        /\ (pc = "done" /\ err = Nil) => Len(calls) = NumSlaves + 1
        /\ (pc = "done" /\ err \in {"ErrCreateDatabase", "ErrDropDatabase"}) =>
              Len(calls) >= 1

\* C35: wait always terminates: for every non-negative WaitInterval and
\* WaitTimeout and every Ping behaviour it returns, after at most
\* 1 + ceil(WaitTimeout / WaitInterval) Ping calls per driver.
C35_WaitTerminates ==
    /\ (op = "wait") ~> (pc = "done")
    /\ []((op = "wait" /\ WaitInterval > 0) => Len(Pings) <= 1 + Passes)

====
